---- MODULE Spec2Model ----
(***************************************************************************)
(* LLM Council backend: the three-stage council pipeline                   *)
(* (backend/council.py, backend/openrouter.py), the two send-message       *)
(* endpoints that drive it (backend/main.py) and the local conversation    *)
(* store they write to (backend/storage.py).                               *)
(*                                                                         *)
(* Python values are modelled as follows.  None is the string "None".      *)
(* A dict with insertion order is a sequence of records or a function.     *)
(* A value a call either returns or raises is [raised, value].  A judge's  *)
(* ranking (whatever json.loads returned) is [kind, items] with kind       *)
(* "None" (JSON null, or no value), "list" (a list of {label, reason}      *)
(* entries, items holding the labels in order) or "object" (a truthy JSON  *)
(* value that is not such a list).                                         *)
(***************************************************************************)
EXTENDS Integers, Sequences, FiniteSets, Bags, TLC

VARIABLES
    store,               \* the local record of the one conversation id
    mode,                \* endpoint serving the current request
    pc,                  \* position of the current request
    nreq,                \* requests started so far
    is_first_message,    \* main.py: len(conversation["messages"]) == 0
    api_key,             \* request.api_key or config's OPENROUTER_API_KEY
    council_models,      \* request.council_models
    stage1_results,
    stage2_results,
    label_to_model,
    anonymized_responses,
    aggregate_rankings,
    stage3_result,
    events,              \* what event_generator has yielded so far
    fault,               \* an exception left the endpoint (HTTP 500)
    status,              \* HTTP status of the request, "None" while running
    user_appends,        \* add_user_message calls completed by the request
    assistant_appends,   \* add_assistant_message calls completed by it
    judge_calls,         \* rank_responses tasks created by the request
    chairman_calls,      \* synthesize_final_response calls made by it
    done_count,          \* times the request's pipeline settled stage 3
    stages_settled,      \* stages of the pipeline that have settled (0..3)
    stage1_absent,       \* stage-1 slots whose query_model call gave None
    stage2_absent,       \* judges whose query_model call gave None
    title_task,          \* event_generator's title_task: None or "task"
    enabled,             \* github_storage.enabled
    remote,              \* the conversation's file in the GitHub repository
    units,               \* the background threads that are running (a bag)
    last_op,             \* the latest storage call and its client_id
    result,              \* what that call returned
    writers,             \* callers inside add_*_message, between read and write
    deleted,             \* delete_conversation has returned True, no append pending
    tasks,               \* the asyncio tasks of the fan-out in progress
    completed,           \* their indices in the order they completed
    abandoned,           \* the caller of the stream went away
    client,              \* the GitHubStorage call in progress
    slept                \* the responses it got and the sleeps it made

vars == <<store, mode, pc, nreq, is_first_message, api_key, council_models,
          stage1_results, stage2_results, label_to_model,
          anonymized_responses, aggregate_rankings, stage3_result, events,
          fault, status, user_appends, assistant_appends, judge_calls,
          chairman_calls, done_count, stages_settled, stage1_absent,
          stage2_absent, title_task, enabled, remote, units, last_op,
          result, writers, deleted, tasks, completed, abandoned, client,
          slept>>

replicaVars == <<enabled, remote, units, last_op, result, writers, deleted>>

fanoutVars == <<tasks, completed>>

clientVars == <<client, slept>>

None == "None"

(***************************************************************************)
(* Bounds of the model.                                                    *)
(***************************************************************************)
MaxModels == 2      \* longest council_models list
MaxRequests == 2    \* send-message requests issued to the conversation
MaxRankLen == 2     \* longest ranking a judge returns (function harness)
MaxUnits == 2       \* background threads running at a time

\* The model identifiers a council is drawn from.
all_models ==
    << "openai/gpt-5.1", "google/gemini-3-pro-preview",
       "anthropic/claude-sonnet-4.5", "x-ai/grok-4" >>

\* The text each model answers with when its call succeeds.
ModelText ==
    [m \in {all_models[i] : i \in 1..Len(all_models)} |->
        CASE m = all_models[1] -> "answer-1"
          [] m = all_models[2] -> "answer-2"
          [] m = all_models[3] -> "answer-3"
          [] OTHER -> "answer-4"]

Letters == << "A", "B", "C", "D", "E", "F", "G", "H" >>

\* chr(n) for the code points stage 2 uses.
chr(n) == Letters[n - 64]

\* A label no response carries (a judge may name anything).
UnknownLabel == "Z"

Range(s) == {s[i] : i \in 1..Len(s)}

RECURSIVE SumSeq(_)
SumSeq(s) == IF s = <<>> THEN 0 ELSE s[1] + SumSeq(Tail(s))

(***************************************************************************)
(* openrouter.py                                                           *)
(***************************************************************************)
\* What the HTTP exchange of one query_model call can come to.
HttpOutcomes == {"200", "non200", "exception"}

\* A query_model that lets the exception of the HTTP exchange through.
query_model_raising(key, outcome, content) ==
    IF key = None
    THEN [raised |-> TRUE, value |-> "OpenRouter API key is required"]
    ELSE IF outcome = "200"
    THEN [raised |-> FALSE, value |-> content]
    ELSE IF outcome = "exception"
    THEN [raised |-> TRUE, value |-> "timed out"]
    ELSE [raised |-> FALSE, value |-> None]

\* query_model: the content on status 200, None otherwise; raises only when
\* no API key is available.
query_model(key, outcome, content) ==
    IF key = None
    THEN [raised |-> TRUE, value |-> "OpenRouter API key is required"]
    ELSE IF outcome = "200"
    THEN [raised |-> FALSE, value |-> content]
    ELSE [raised |-> FALSE, value |-> None]

NoResponseText == "Error: No response from model"

\* get_model_response: response["content"] if response else the fixed text.
get_model_response(model, key, outcome) ==
    IF key = None
    THEN [raised |-> TRUE, value |-> "OpenRouter API key is required"]
    ELSE LET response == query_model(key, outcome, ModelText[model]).value
         IN  [raised |-> FALSE,
              value |-> IF response # None THEN response ELSE NoResponseText]

NoRanking == [kind |-> "None", items |-> <<>>]
EmptyRanking == [kind |-> "list", items |-> <<>>]

\* rank_responses: [] when the gateway yields nothing, json.loads of the
\* content otherwise; content that is not JSON raises.  reply.json is
\* "invalid" (not JSON) or the kind of the JSON value.
rank_responses(key, outcome, reply) ==
    IF key = None
    THEN [raised |-> TRUE, error |-> "OpenRouter API key is required",
          ranking |-> NoRanking]
    ELSE IF query_model(key, outcome, "json").value = None
    THEN [raised |-> FALSE, error |-> None, ranking |-> EmptyRanking]
    ELSE IF reply.json = "invalid"
    THEN [raised |-> TRUE, error |-> "Failed to parse ranking response",
          ranking |-> NoRanking]
    ELSE [raised |-> FALSE, error |-> None,
          ranking |-> [kind |-> reply.json, items |-> reply.items]]

NoFinalText == "Error: No final response generated"
ChairmanText == "final-answer"

\* Python truthiness of a ranking: None and the empty list are falsy.
Truthy(ranking) ==
    \/ ranking.kind = "object"
    \/ ranking.kind = "list" /\ ranking.items # <<>>

\* synthesize_final_response: formatting the rankings indexes every item
\* of a truthy ranking by 'label', which raises on a value that is not a
\* list of entries; the chairman is called only after that.
synthesize_final_response(s1, s2, key, outcome) ==
    IF key = None
    THEN [raised |-> TRUE, called |-> FALSE,
          value |-> "OpenRouter API key is required"]
    ELSE IF \E i \in 1..Len(s2) : s2[i].ranking.kind = "object"
    THEN [raised |-> TRUE, called |-> FALSE,
          value |-> "string indices must be integers"]
    ELSE LET response == query_model(key, outcome, ChairmanText).value
         IN  [raised |-> FALSE, called |-> TRUE,
              value |-> IF response # None THEN response ELSE NoFinalText]

(***************************************************************************)
(* council.py                                                              *)
(***************************************************************************)
\* stage1_collect_responses: one result per configured model, in list
\* order; a task that raised becomes that slot's error.
stage1_collect_responses(models, key, outcomes) ==
    [i \in 1..Len(models) |->
        LET r == get_model_response(models[i], key, outcomes[i])
        IN  IF r.raised
            THEN [model |-> models[i], response |-> None, error |-> r.value]
            ELSE [model |-> models[i], response |-> r.value, error |-> None]]

Stage1Ok(r) == r.error = None

\* [r for r in stage1_results if r["error"] is None]
successful_results(s1) == SelectSeq(s1, Stage1Ok)

\* Mutant of LabelOf: the labels start one letter late.
LabelOf_from_B(i) == chr(66 + i)

\* label = chr(65 + i) for the i-th (0-based) successful result.
LabelOf(i) == chr(65 + i)

\* The 0-based index whose label is l.
IndexOf(l) == CHOOSE i \in 0..(Len(Letters) - 1) : LabelOf(i) = l

\* label_to_model[label] = result["model"]
LabelToModel(succ) ==
    [l \in {LabelOf(i) : i \in 0..(Len(succ) - 1)} |-> succ[IndexOf(l) + 1].model]

\* model_to_label[result["model"]] = label: a later result of the same
\* model overwrites the earlier label.
ModelToLabel(succ) ==
    [m \in {succ[i].model : i \in 1..Len(succ)} |->
        LET last == CHOOSE i \in 1..Len(succ) :
                        /\ succ[i].model = m
                        /\ \A j \in 1..Len(succ) : succ[j].model = m => j <= i
        IN  LabelOf(last - 1)]

\* anonymized_responses[model_to_label[result["model"]]] = result["response"],
\* written in list order.
AnonymizedResponses(succ) ==
    LET m2l == ModelToLabel(succ)
    IN  [l \in {m2l[m] : m \in DOMAIN m2l} |-> succ[IndexOf(l) + 1].response]

\* Mutant of stage2_collect_rankings: no early return for an empty list of
\* successes, so the judges are asked to rank nothing.
stage2_collect_rankings_no_return(s1, models, key, outcomes, replies) ==
    LET succ == successful_results(s1)
    IN  [results |->
            [i \in 1..Len(models) |->
                LET r == rank_responses(key, outcomes[i], replies[i])
                IN  [model |-> models[i], ranking |-> r.ranking,
                     error |-> r.error]],
         label_to_model |-> LabelToModel(succ),
         anonymized |-> AnonymizedResponses(succ),
         tasks |-> Len(models)]

\* stage2_collect_rankings: nothing at all when stage 1 has no success;
\* otherwise one rank_responses task per configured model.
stage2_collect_rankings(s1, models, key, outcomes, replies) ==
    LET succ == successful_results(s1)
    IN  IF succ = <<>>
        THEN [results |-> <<>>, label_to_model |-> <<>>,
              anonymized |-> <<>>, tasks |-> 0]
        ELSE [results |->
                 [i \in 1..Len(models) |->
                     LET r == rank_responses(key, outcomes[i], replies[i])
                     IN  [model |-> models[i], ranking |-> r.ranking,
                          error |-> r.error]],
              label_to_model |-> LabelToModel(succ),
              anonymized |-> AnonymizedResponses(succ),
              tasks |-> Len(models)]

Stage2Ok(r) == r.ranking.kind # "None"

\* [r for r in stage2_results if r["ranking"] is not None]
successful_rankings(s2) == SelectSeq(s2, Stage2Ok)

\* Mutant of Score: the 1-based rank is subtracted.
Score_one_based(max_score, rank) == max_score - (rank + 1)

\* score = max_score - rank
Score(max_score, rank) == max_score - rank

\* model_scores[model]["total_score"] += score; ["rankings"].append(rank + 1)
Credit(model_scores, model, score, rank) ==
    IF \E i \in 1..Len(model_scores) : model_scores[i].model = model
    THEN [i \in 1..Len(model_scores) |->
             IF model_scores[i].model = model
             THEN [model |-> model,
                   total_score |-> model_scores[i].total_score + score,
                   rankings |-> Append(model_scores[i].rankings, rank + 1)]
             ELSE model_scores[i]]
    ELSE Append(model_scores,
                [model |-> model, total_score |-> score,
                 rankings |-> <<rank + 1>>])

\* The inner loop over one judge's ranking, from 0-based position rank on.
RECURSIVE ScoreRanks(_, _, _, _)
ScoreRanks(model_scores, ranks, rank, l2m) ==
    IF rank >= Len(ranks)
    THEN model_scores
    ELSE LET label == ranks[rank + 1]
             model == IF label \in DOMAIN l2m THEN l2m[label] ELSE None
         IN  ScoreRanks(
                 IF model # None
                 THEN Credit(model_scores, model, Score(Len(ranks), rank), rank)
                 ELSE model_scores,
                 ranks, rank + 1, l2m)

\* The outer loop over the successful rankings; an empty ranking is skipped.
RECURSIVE ScoreAll(_, _, _)
ScoreAll(model_scores, rankings, l2m) ==
    IF rankings = <<>>
    THEN model_scores
    ELSE ScoreAll(
             IF Truthy(rankings[1].ranking)
             THEN ScoreRanks(model_scores, rankings[1].ranking.items, 0, l2m)
             ELSE model_scores,
             Tail(rankings), l2m)

\* total_rankings = len(successful_rankings)
TotalRankings(successful) == Len(successful)

\* One entry of the aggregate; a quotient is [num, den].
AggregateEntry(data, total_rankings) ==
    [model |-> data.model,
     total_score |-> data.total_score,
     average_score |-> [num |-> data.total_score, den |-> total_rankings],
     average_rank |-> [num |-> SumSeq(data.rankings),
                       den |-> Len(data.rankings)],
     rankings_count |-> Len(data.rankings)]

\* Mutant of ScoreLess: an equal score also counts as less.
ScoreLess_or_equal(a, b) ==
    a.average_score.num * b.average_score.den
        <= b.average_score.num * a.average_score.den

\* a.average_score < b.average_score
ScoreLess(a, b) ==
    a.average_score.num * b.average_score.den
        < b.average_score.num * a.average_score.den

\* list.sort(key=average_score, reverse=True): stable, so x goes behind
\* every entry that does not score less than it.
RECURSIVE InsertSorted(_, _)
InsertSorted(sorted, x) ==
    IF sorted = <<>>
    THEN <<x>>
    ELSE IF ScoreLess(sorted[1], x)
    THEN <<x>> \o sorted
    ELSE <<sorted[1]>> \o InsertSorted(Tail(sorted), x)

RECURSIVE SortByAverageScore(_, _)
SortByAverageScore(sorted, rest) ==
    IF rest = <<>>
    THEN sorted
    ELSE SortByAverageScore(InsertSorted(sorted, rest[1]), Tail(rest))

\* calculate_aggregate_rankings: {} for no input, otherwise the sorted
\* list; a truthy ranking that is not a list of entries raises.
calculate_aggregate_rankings(s2, l2m) ==
    LET successful == successful_rankings(s2)
    IN  IF s2 = <<>> \/ DOMAIN l2m = {} \/ successful = <<>>
        THEN [raised |-> FALSE, value |-> <<>>]
        ELSE IF \E i \in 1..Len(successful) :
                    successful[i].ranking.kind = "object"
        THEN [raised |-> TRUE, value |-> <<>>]
        ELSE LET model_scores == ScoreAll(<<>>, successful, l2m)
                 aggregate ==
                     [i \in 1..Len(model_scores) |->
                         AggregateEntry(model_scores[i],
                                        TotalRankings(successful))]
             IN  [raised |-> FALSE,
                  value |-> SortByAverageScore(<<>>, aggregate)]

AllFailedStage3 ==
    [response |-> "Sorry, all models failed to generate responses.",
     error |-> "No successful responses from stage 1"]

ChairmanFailedText ==
    "Sorry, the chairman model failed to synthesize a final response."

\* stage3_synthesize_final: the fixed payload when stage 1 has no success;
\* otherwise the chairman's text, or the failure marker when the call raised.
stage3_synthesize_final(s1, s2, key, outcome) ==
    LET successful_stage1 == successful_results(s1)
        successful_stage2 == successful_rankings(s2)
    IN  IF successful_stage1 = <<>>
        THEN [result |-> AllFailedStage3, called |-> FALSE]
        ELSE LET r == synthesize_final_response(
                          successful_stage1, successful_stage2, key, outcome)
             IN  IF r.raised
                 THEN [result |-> [response |-> ChairmanFailedText,
                                   error |-> r.value],
                       called |-> r.called]
                 ELSE [result |-> [response |-> r.value, error |-> None],
                       called |-> r.called]

(***************************************************************************)
(* storage.py: the local store of one conversation id.  A stored           *)
(* assistant message keeps its stage3 field; stage1 and stage2 are not     *)
(* read back by the send-message endpoints and are left out of the record. *)
(***************************************************************************)
NoStage3 == [response |-> None, error |-> None]

Absent ==
    [exists |-> FALSE, title |-> None, messages |-> <<>>, client_id |-> None]

\* create_conversation: title "New Conversation", no messages.
create_conversation(client_id) ==
    [exists |-> TRUE, title |-> "New Conversation", messages |-> <<>>,
     client_id |-> client_id]

UserMessage == [role |-> "user", stage3 |-> NoStage3]

AssistantMessage(s3) == [role |-> "assistant", stage3 |-> s3]

\* add_user_message: raises ValueError when the record is not there.
add_user_message(st) ==
    IF ~st.exists
    THEN [raised |-> TRUE, store |-> st]
    ELSE [raised |-> FALSE,
          store |-> [st EXCEPT !.messages = Append(@, UserMessage)]]

\* add_assistant_message: raises ValueError when the record is not there.
add_assistant_message(st, s3) ==
    IF ~st.exists
    THEN [raised |-> TRUE, store |-> st]
    ELSE [raised |-> FALSE,
          store |-> [st EXCEPT !.messages = Append(@, AssistantMessage(s3))]]

\* update_conversation_title: raises ValueError when the record is not there.
update_conversation_title(st, title) ==
    IF ~st.exists
    THEN [raised |-> TRUE, store |-> st]
    ELSE [raised |-> FALSE, store |-> [st EXCEPT !.title = title]]

\* delete_conversation: removes the local file, True when it was there.
delete_conversation(st) == [deleted |-> st.exists, store |-> Absent]

(***************************************************************************)
(* main.py: the two send-message endpoints.                                *)
(***************************************************************************)
\* Positional arguments main.py passes to generate_conversation_title, and
\* the parameters council.py declares for it.
TitleArgsPassed == 2
TitleParams == 1

\* Calling generate_conversation_title(request.content, request.api_key)
\* raises TypeError before any coroutine exists.
TitleCallRaises == TitleArgsPassed # TitleParams

\* What generate_title comes to when it runs.
TitleResults == {"generated-title", "New Conversation"}

\* council_models of a request: the first n of the model list.
CouncilOf(n) == SubSeq(all_models, 1, n)

ApiKeys == {"sk-key", None}

\* The rankings a judge of the request flow answers with.
InOrder(k) == [i \in 1..k |-> LabelOf(i - 1)]
Reversed(k) == [i \in 1..k |-> LabelOf(k - i)]

JudgeReplies(k) ==
    {[json |-> "invalid", items |-> <<>>], [json |-> "object", items |-> <<>>]}
    \cup {[json |-> "list", items |-> r] :
             r \in IF k = 0
                   THEN {<<>>}
                   ELSE {InOrder(k), Reversed(k), <<LabelOf(k - 1)>>}}

\* One judge's call: the HTTP outcome and, on 200, the reply.
JudgeBehaviours(k) ==
    {[outcome |-> o, reply |-> [json |-> "invalid", items |-> <<>>]] :
        o \in HttpOutcomes \ {"200"}}
    \cup {[outcome |-> "200", reply |-> r] : r \in JudgeReplies(k)}

\* No file in the repository.
NoRemote == [exists |-> FALSE, content |-> Absent]

NoCall == [name |-> None, client_id |-> None]

NoResult == [status |-> None, value |-> Absent]

Writers == {1, 2}

IdleWriter == [pc |-> "idle", snap |-> Absent, role |-> None, index |-> 0]

\* The remote tier switched off (ENABLE_GITHUB_SYNC defaults to false), no
\* storage call under way and no task created.
\* No call of the GitHubStorage client is in progress.
NoClientCall ==
    [call |-> None, pc |-> "idle", attempt |-> 0, sha |-> Absent,
     value |-> None]

ReplicaIdle ==
    /\ enabled = FALSE
    /\ remote = NoRemote
    /\ units = EmptyBag
    /\ last_op = NoCall
    /\ result = NoResult
    /\ writers = [w \in Writers |-> IdleWriter]
    /\ deleted = FALSE
    /\ tasks = <<>>
    /\ completed = <<>>
    /\ client = NoClientCall
    /\ slept = <<>>

requestVars ==
    <<mode, is_first_message, api_key, council_models, title_task,
      abandoned>>
stageVars ==
    <<stage1_results, stage2_results, label_to_model, anonymized_responses,
      aggregate_rankings, stage3_result>>
countVars ==
    <<judge_calls, chairman_calls, done_count, stages_settled, stage1_absent,
      stage2_absent>>

\* The slots whose gateway call was made and yielded None.
AbsentSlots(key, outcomes) ==
    {i \in DOMAIN outcomes : key # None /\ outcomes[i] # "200"}

\* A request starts with nothing computed.
FreshRequest ==
    /\ stage1_results' = <<>>
    /\ stage2_results' = <<>>
    /\ label_to_model' = <<>>
    /\ anonymized_responses' = <<>>
    /\ aggregate_rankings' = <<>>
    /\ stage3_result' = NoStage3
    /\ events' = <<>>
    /\ assistant_appends' = 0
    /\ judge_calls' = 0
    /\ chairman_calls' = 0
    /\ done_count' = 0
    /\ stages_settled' = 0
    /\ stage1_absent' = {}
    /\ stage2_absent' = {}
    /\ title_task' = None
    /\ abandoned' = FALSE

Init ==
    /\ store = create_conversation(None)
    /\ mode = None
    /\ pc = "idle"
    /\ nreq = 0
    /\ is_first_message = FALSE
    /\ api_key = None
    /\ council_models = <<>>
    /\ stage1_results = <<>>
    /\ stage2_results = <<>>
    /\ label_to_model = <<>>
    /\ anonymized_responses = <<>>
    /\ aggregate_rankings = <<>>
    /\ stage3_result = NoStage3
    /\ events = <<>>
    /\ fault = FALSE
    /\ status = None
    /\ user_appends = 0
    /\ assistant_appends = 0
    /\ judge_calls = 0
    /\ chairman_calls = 0
    /\ done_count = 0
    /\ stages_settled = 0
    /\ stage1_absent = {}
    /\ stage2_absent = {}
    /\ title_task = None
    /\ abandoned = FALSE
    /\ ReplicaIdle

\* event_generator's except branch: one error event ends the stream.
StreamError ==
    /\ events' = Append(events, "error")
    /\ pc' = "done"

\* send_message up to its first await: the 404 check, add_user_message
\* and, for a first message, the title call.
send_message(key, n) ==
    /\ pc \in {"idle", "done"}
    /\ nreq < MaxRequests
    /\ nreq' = nreq + 1
    /\ mode' = "sync"
    /\ api_key' = key
    /\ council_models' = CouncilOf(n)
    /\ FreshRequest
    /\ is_first_message' = (store.exists /\ Len(store.messages) = 0)
    /\ IF ~store.exists
       THEN /\ status' = "404"
            /\ pc' = "done"
            /\ fault' = FALSE
            /\ user_appends' = 0
            /\ store' = store
       ELSE /\ user_appends' = 1
            /\ IF Len(store.messages) = 0
               THEN IF TitleCallRaises
                    THEN /\ store' = add_user_message(store).store
                         /\ fault' = TRUE
                         /\ status' = "500"
                         /\ pc' = "done"
                    ELSE /\ \E t \in TitleResults :
                              store' = update_conversation_title(
                                           add_user_message(store).store, t).store
                         /\ fault' = FALSE
                         /\ status' = None
                         /\ pc' = "stage1"
               ELSE /\ store' = add_user_message(store).store
                    /\ fault' = FALSE
                    /\ status' = None
                    /\ pc' = "stage1"
    /\ UNCHANGED <<replicaVars, fanoutVars, clientVars>>

\* send_message_stream: the 404 check, then the StreamingResponse is
\* returned and event_generator runs later.
send_message_stream(key, n) ==
    /\ pc \in {"idle", "done"}
    /\ nreq < MaxRequests
    /\ nreq' = nreq + 1
    /\ mode' = "stream"
    /\ api_key' = key
    /\ council_models' = CouncilOf(n)
    /\ FreshRequest
    /\ is_first_message' = (store.exists /\ Len(store.messages) = 0)
    /\ fault' = FALSE
    /\ user_appends' = 0
    /\ store' = store
    /\ IF ~store.exists
       THEN status' = "404" /\ pc' = "done"
       ELSE status' = "200" /\ pc' = "generator"
    /\ UNCHANGED <<replicaVars, fanoutVars, clientVars>>

\* event_generator up to its first yield: add_user_message, the title
\* task, then stage1_start.
event_generator_begin ==
    /\ pc = "generator"
    /\ LET r == add_user_message(store)
       IN  /\ store' = r.store
           /\ user_appends' = IF r.raised THEN 0 ELSE 1
           /\ IF r.raised \/ (is_first_message /\ TitleCallRaises)
              THEN StreamError /\ title_task' = None
              ELSE /\ events' = Append(events, "stage1_start")
                   /\ title_task' = IF is_first_message THEN "task" ELSE None
                   /\ pc' = "stage1"
    /\ UNCHANGED <<mode, is_first_message, api_key, council_models, nreq,
                   fault, status, assistant_appends, abandoned>>
    /\ UNCHANGED <<stageVars, countVars>>
    /\ UNCHANGED <<replicaVars, fanoutVars, clientVars>>

\* Every stage-1 task settles; streaming then yields stage1_complete.
stage1_settle(outcomes) ==
    /\ pc = "stage1"
    /\ stage1_results' =
           stage1_collect_responses(council_models, api_key, outcomes)
    /\ IF mode = "stream"
       THEN /\ events' = Append(events, "stage1_complete")
            /\ pc' = "stage2_start"
       ELSE /\ events' = events
            /\ pc' = "stage2"
    /\ stages_settled' = 1
    /\ stage1_absent' = AbsentSlots(api_key, outcomes)
    /\ UNCHANGED <<store, nreq, fault, status, user_appends,
                   assistant_appends, stage2_results, label_to_model,
                   anonymized_responses, aggregate_rankings, stage3_result,
                   judge_calls, chairman_calls, done_count, stage2_absent>>
    /\ UNCHANGED requestVars
    /\ UNCHANGED <<replicaVars, fanoutVars, clientVars>>

\* Mutant of stage2_start: the marker of the wrong stage is yielded.
stage2_start_wrong_marker ==
    /\ pc = "stage2_start"
    /\ events' = Append(events, "stage3_start")
    /\ pc' = "stage2"
    /\ UNCHANGED <<store, nreq, fault, status, user_appends,
                   assistant_appends>>
    /\ UNCHANGED <<requestVars, stageVars, countVars>>
    /\ UNCHANGED <<replicaVars, fanoutVars, clientVars>>

stage2_start ==
    /\ pc = "stage2_start"
    /\ events' = Append(events, "stage2_start")
    /\ pc' = "stage2"
    /\ UNCHANGED <<store, nreq, fault, status, user_appends,
                   assistant_appends>>
    /\ UNCHANGED <<requestVars, stageVars, countVars>>
    /\ UNCHANGED <<replicaVars, fanoutVars, clientVars>>

\* Every stage-2 task settles; streaming then aggregates and yields
\* stage2_complete.
stage2_settle(behaviours) ==
    /\ pc = "stage2"
    /\ LET r == stage2_collect_rankings(
                    stage1_results, council_models, api_key,
                    [i \in 1..Len(council_models) |-> behaviours[i].outcome],
                    [i \in 1..Len(council_models) |-> behaviours[i].reply])
           agg == calculate_aggregate_rankings(r.results, r.label_to_model)
       IN  /\ stage2_results' = r.results
           /\ label_to_model' = r.label_to_model
           /\ anonymized_responses' = r.anonymized
           /\ judge_calls' = judge_calls + r.tasks
           /\ stage2_absent' =
                  IF r.tasks = 0
                  THEN {}
                  ELSE AbsentSlots(api_key,
                           [i \in 1..Len(council_models) |->
                               behaviours[i].outcome])
           /\ IF mode = "stream"
              THEN IF agg.raised
                   THEN StreamError /\ aggregate_rankings' = aggregate_rankings
                   ELSE /\ aggregate_rankings' = agg.value
                        /\ events' = Append(events, "stage2_complete")
                        /\ pc' = "stage3_start"
              ELSE /\ aggregate_rankings' = aggregate_rankings
                   /\ events' = events
                   /\ pc' = "stage3"
    /\ stages_settled' = 2
    /\ UNCHANGED <<store, nreq, fault, status, user_appends,
                   assistant_appends, stage1_results, stage3_result,
                   chairman_calls, done_count, stage1_absent>>
    /\ UNCHANGED requestVars
    /\ UNCHANGED <<replicaVars, fanoutVars, clientVars>>

stage3_start ==
    /\ pc = "stage3_start"
    /\ events' = Append(events, "stage3_start")
    /\ pc' = "stage3"
    /\ UNCHANGED <<store, nreq, fault, status, user_appends,
                   assistant_appends>>
    /\ UNCHANGED <<requestVars, stageVars, countVars>>
    /\ UNCHANGED <<replicaVars, fanoutVars, clientVars>>

\* Stage 3 settles.  Streaming yields stage3_complete; send_message goes on,
\* without another await, to the aggregate, add_assistant_message and the
\* response.
stage3_settle(outcome) ==
    /\ pc = "stage3"
    /\ LET r == stage3_synthesize_final(
                    stage1_results, stage2_results, api_key, outcome)
           agg == calculate_aggregate_rankings(stage2_results, label_to_model)
           w == add_assistant_message(store, r.result)
       IN  /\ stage3_result' = r.result
           /\ chairman_calls' = chairman_calls + (IF r.called THEN 1 ELSE 0)
           /\ done_count' = done_count + 1
           /\ IF mode = "stream"
              THEN /\ events' = Append(events, "stage3_complete")
                   /\ pc' = "save"
                   /\ UNCHANGED <<store, fault, status, assistant_appends,
                                  aggregate_rankings>>
              ELSE /\ events' = events
                   /\ pc' = "done"
                   /\ IF agg.raised
                      THEN /\ fault' = TRUE
                           /\ status' = "500"
                           /\ UNCHANGED <<store, assistant_appends,
                                          aggregate_rankings>>
                      ELSE /\ aggregate_rankings' = agg.value
                           /\ store' = w.store
                           /\ fault' = w.raised
                           /\ status' = IF w.raised THEN "500" ELSE "200"
                           /\ assistant_appends' =
                                  assistant_appends + (IF w.raised THEN 0 ELSE 1)
    /\ stages_settled' = 3
    /\ UNCHANGED <<nreq, user_appends, stage1_results, stage2_results,
                   label_to_model, anonymized_responses, judge_calls,
                   stage1_absent, stage2_absent>>
    /\ UNCHANGED requestVars
    /\ UNCHANGED <<replicaVars, fanoutVars, clientVars>>

\* Mutant of save_assistant_message: a failed write is swallowed and the
\* stream goes on to its completion event.
save_assistant_message_swallow ==
    /\ pc = "save"
    /\ LET w == add_assistant_message(store, stage3_result)
       IN  /\ store' = w.store
           /\ assistant_appends' =
                  assistant_appends + (IF w.raised THEN 0 ELSE 1)
    /\ pc' = "complete"
    /\ UNCHANGED <<nreq, fault, status, user_appends, events>>
    /\ UNCHANGED <<requestVars, stageVars, countVars>>
    /\ UNCHANGED <<replicaVars, fanoutVars, clientVars>>

\* event_generator after stage3_complete: the title, when a task was
\* started, then add_assistant_message.
save_assistant_message ==
    /\ pc = "save"
    /\ \E t \in TitleResults :
          LET u == IF title_task # None
                   THEN update_conversation_title(store, t)
                   ELSE [raised |-> FALSE, store |-> store]
              w == add_assistant_message(u.store, stage3_result)
              titled == IF title_task # None /\ ~u.raised
                        THEN Append(events, "title_complete")
                        ELSE events
          IN  /\ store' = w.store
              /\ IF u.raised \/ w.raised
                 THEN /\ events' = Append(titled, "error")
                      /\ pc' = "done"
                      /\ assistant_appends' = assistant_appends
                 ELSE /\ events' = titled
                      /\ pc' = "complete"
                      /\ assistant_appends' = assistant_appends + 1
    /\ UNCHANGED <<nreq, fault, status, user_appends>>
    /\ UNCHANGED <<requestVars, stageVars, countVars>>
    /\ UNCHANGED <<replicaVars, fanoutVars, clientVars>>

\* The completion event.
send_complete ==
    /\ pc = "complete"
    /\ events' = Append(events, "complete")
    /\ pc' = "done"
    /\ UNCHANGED <<store, nreq, fault, status, user_appends,
                   assistant_appends>>
    /\ UNCHANGED <<requestVars, stageVars, countVars>>
    /\ UNCHANGED <<replicaVars, fanoutVars, clientVars>>

\* delete_conversation_endpoint, called by another request at any time.
delete_conversation_endpoint ==
    /\ store.exists
    /\ store' = delete_conversation(store).store
    /\ UNCHANGED <<pc, nreq, events, fault, status, user_appends,
                   assistant_appends>>
    /\ UNCHANGED <<requestVars, stageVars, countVars>>
    /\ UNCHANGED <<replicaVars, fanoutVars, clientVars>>

\* Where event_generator stands once stage 1 has been dispatched: inside
\* an await of a stage, or at a yield after it.
Dispatched ==
    {"stage1", "stage2_start", "stage2", "stage3_start", "stage3", "save",
     "complete"}

\* The caller of the stream closes the connection.
abandon ==
    /\ mode = "stream"
    /\ pc \in Dispatched
    /\ ~abandoned
    /\ abandoned' = TRUE
    /\ UNCHANGED <<store, pc, nreq, events, fault, status, user_appends,
                   assistant_appends, mode, is_first_message, api_key,
                   council_models, title_task>>
    /\ UNCHANGED <<stageVars, countVars>>
    /\ UNCHANGED <<replicaVars, fanoutVars, clientVars>>

\* The server notices: the task iterating event_generator is cancelled.
\* The generator gets CancelledError at its await, or is closed at its
\* yield; neither is an Exception, so its except branch does not run
\* and nothing after the point it stood at is executed.
generator_cancelled ==
    /\ mode = "stream"
    /\ pc \in Dispatched
    /\ abandoned
    /\ pc' = "done"
    /\ UNCHANGED <<store, nreq, events, fault, status, user_appends,
                   assistant_appends>>
    /\ UNCHANGED <<requestVars, stageVars, countVars>>
    /\ UNCHANGED <<replicaVars, fanoutVars, clientVars>>

StartSync == \E key \in ApiKeys, n \in 0..MaxModels : send_message(key, n)

StartStream ==
    \E key \in ApiKeys, n \in 0..MaxModels : send_message_stream(key, n)

Stage1 ==
    /\ pc = "stage1"
    /\ \E outcomes \in [1..Len(council_models) -> HttpOutcomes] :
          stage1_settle(outcomes)

Stage2 ==
    /\ pc = "stage2"
    /\ \E behaviours \in
              [1..Len(council_models) ->
                  JudgeBehaviours(Len(successful_results(stage1_results)))] :
          stage2_settle(behaviours)

Stage3 == pc = "stage3" /\ \E outcome \in HttpOutcomes : stage3_settle(outcome)

Next ==
    \/ StartSync
    \/ StartStream
    \/ event_generator_begin
    \/ Stage1
    \/ stage2_start
    \/ Stage2
    \/ stage3_start
    \/ Stage3
    \/ save_assistant_message
    \/ send_complete
    \/ abandon
    \/ generator_cancelled
    \/ delete_conversation_endpoint

Spec == Init /\ [][Next]_vars

(***************************************************************************)
(* Function harness: stage2_collect_rankings and                           *)
(* calculate_aggregate_rankings applied to any stage-1 result list (every  *)
(* success/failure pattern, model lists with a repeated id) and to any     *)
(* judge output (labels in any order, repeated models, unknown labels,     *)
(* short and empty rankings).                                              *)
(***************************************************************************)
\* Model lists of length n: distinct ids, and the first id again at the end.
HarnessCouncils(n) ==
    IF n = 0
    THEN {<<>>}
    ELSE {CouncilOf(n), [CouncilOf(n) EXCEPT ![n] = all_models[1]]}

\* Stage-1 result lists for a model list: each slot succeeded or raised.
HarnessStage1(models) ==
    {[i \in 1..Len(models) |->
         IF ok[i]
         THEN [model |-> models[i], response |-> ModelText[models[i]],
               error |-> None]
         ELSE [model |-> models[i], response |-> None,
               error |-> "task raised"]] :
     ok \in [1..Len(models) -> BOOLEAN]}

\* Rankings of up to MaxRankLen entries over the k assigned labels, each
\* label at most once, and rankings that name a label no response carries.
HarnessRankings(k) ==
    LET alphabet == {LabelOf(i) : i \in 0..(k - 1)}
    IN  {r \in UNION {[1..m -> alphabet] : m \in 0..MaxRankLen} :
            \A i, j \in DOMAIN r : r[i] = r[j] => i = j}
        \cup {<<UnknownLabel>>}
        \cup (IF k = 0
              THEN {}
              ELSE {<<UnknownLabel, LabelOf(0)>>, <<LabelOf(0), UnknownLabel>>})

HarnessBehaviours(k) ==
    {[outcome |-> "exception", reply |-> [json |-> "invalid", items |-> <<>>]],
     [outcome |-> "200", reply |-> [json |-> "invalid", items |-> <<>>]],
     [outcome |-> "200", reply |-> [json |-> "object", items |-> <<>>]]}
    \cup {[outcome |-> "200", reply |-> [json |-> "list", items |-> r]] :
             r \in HarnessRankings(k)}

FnInit ==
    /\ store = create_conversation(None)
    /\ mode = None
    /\ pc = "fn_stage2"
    /\ nreq = 0
    /\ is_first_message = FALSE
    /\ api_key = "sk-key"
    /\ council_models \in UNION {HarnessCouncils(n) : n \in 0..MaxModels}
    /\ stage1_results \in HarnessStage1(council_models)
    /\ stage2_results = <<>>
    /\ label_to_model = <<>>
    /\ anonymized_responses = <<>>
    /\ aggregate_rankings = <<>>
    /\ stage3_result = NoStage3
    /\ events = <<>>
    /\ fault = FALSE
    /\ status = None
    /\ user_appends = 0
    /\ assistant_appends = 0
    /\ judge_calls = 0
    /\ chairman_calls = 0
    /\ done_count = 0
    /\ stages_settled = 1
    /\ stage1_absent = {}
    /\ stage2_absent = {}
    /\ title_task = None
    /\ abandoned = FALSE
    /\ ReplicaIdle

\* stage2_collect_rankings on the drawn stage-1 results.
fn_stage2(behaviours) ==
    /\ pc = "fn_stage2"
    /\ LET outcomes == [i \in 1..Len(council_models) |-> behaviours[i].outcome]
           r == stage2_collect_rankings(
                    stage1_results, council_models, api_key, outcomes,
                    [i \in 1..Len(council_models) |-> behaviours[i].reply])
       IN  /\ stage2_results' = r.results
           /\ label_to_model' = r.label_to_model
           /\ anonymized_responses' = r.anonymized
           /\ judge_calls' = r.tasks
           /\ stage2_absent' =
                  IF r.tasks = 0 THEN {} ELSE AbsentSlots(api_key, outcomes)
    /\ stages_settled' = 2
    /\ pc' = "fn_aggregate"
    /\ UNCHANGED <<store, nreq, stage1_results, aggregate_rankings,
                   stage3_result, events, fault, status, user_appends,
                   assistant_appends, chairman_calls, done_count,
                   stage1_absent>>
    /\ UNCHANGED requestVars
    /\ UNCHANGED <<replicaVars, fanoutVars, clientVars>>

\* calculate_aggregate_rankings on what stage 2 returned.
fn_aggregate ==
    /\ pc = "fn_aggregate"
    /\ LET agg == calculate_aggregate_rankings(stage2_results, label_to_model)
       IN  /\ aggregate_rankings' = agg.value
           /\ fault' = agg.raised
    /\ pc' = "fn_done"
    /\ UNCHANGED <<store, nreq, stage1_results, stage2_results,
                   label_to_model, anonymized_responses, stage3_result,
                   events, status, user_appends, assistant_appends>>
    /\ UNCHANGED <<requestVars, countVars>>
    /\ UNCHANGED <<replicaVars, fanoutVars, clientVars>>

FnStage2 ==
    /\ pc = "fn_stage2"
    /\ \E behaviours \in
              [1..Len(council_models) ->
                  HarnessBehaviours(Len(successful_results(stage1_results)))] :
          fn_stage2(behaviours)

FnNext == FnStage2 \/ fn_aggregate

FnSpec == FnInit /\ [][FnNext]_vars

(***************************************************************************)
(* Three-model run: stage1_collect_responses on a council of three with    *)
(* the first and third model answering and any outcome for the second,     *)
(* then stage 2 and the aggregate as in the function harness.              *)
(***************************************************************************)
\* council_models = all_models[:3]
ScenarioCouncil == SubSeq(all_models, 1, Len(all_models) - 1)

ScInit ==
    /\ store = create_conversation(None)
    /\ mode = None
    /\ pc = "sc_stage1"
    /\ nreq = 0
    /\ is_first_message = FALSE
    /\ api_key = "sk-key"
    /\ council_models = ScenarioCouncil
    /\ stage1_results = <<>>
    /\ stage2_results = <<>>
    /\ label_to_model = <<>>
    /\ anonymized_responses = <<>>
    /\ aggregate_rankings = <<>>
    /\ stage3_result = NoStage3
    /\ events = <<>>
    /\ fault = FALSE
    /\ status = None
    /\ user_appends = 0
    /\ assistant_appends = 0
    /\ judge_calls = 0
    /\ chairman_calls = 0
    /\ done_count = 0
    /\ stages_settled = 0
    /\ stage1_absent = {}
    /\ stage2_absent = {}
    /\ title_task = None
    /\ abandoned = FALSE
    /\ ReplicaIdle

\* stage1_collect_responses on the three models.
sc_stage1(outcomes) ==
    /\ pc = "sc_stage1"
    /\ stage1_results' =
           stage1_collect_responses(council_models, api_key, outcomes)
    /\ stage1_absent' = AbsentSlots(api_key, outcomes)
    /\ stages_settled' = 1
    /\ pc' = "fn_stage2"
    /\ UNCHANGED <<store, nreq, stage2_results, label_to_model,
                   anonymized_responses, aggregate_rankings, stage3_result,
                   events, fault, status, user_appends, assistant_appends,
                   judge_calls, chairman_calls, done_count, stage2_absent>>
    /\ UNCHANGED requestVars
    /\ UNCHANGED <<replicaVars, fanoutVars, clientVars>>

ScStage1 ==
    /\ pc = "sc_stage1"
    /\ \E o \in HttpOutcomes :
          sc_stage1([i \in 1..Len(council_models) |->
                        IF i = 2 THEN o ELSE "200"])

ScNext == ScStage1 \/ FnStage2 \/ fn_aggregate

ScSpec == ScInit /\ [][ScNext]_vars

(***************************************************************************)
(* The fan-out of stage 1 and of stage 2 on the event loop: the tasks are  *)
(* created in one go, complete one by one in any order while the stage     *)
(* function waits, and are awaited in the order of the model list.         *)
(***************************************************************************)
\* asyncio.create_task(...): the task of slot i, not yet finished.
Created(model) ==
    [state |-> "created", model |-> model, outcome |-> None,
     reply |-> [json |-> "invalid", items |-> <<>>]]

\* The stage-1 tasks are tasks[1..n], the stage-2 tasks tasks[n+1..2n].
Stage1Task(i) == i
Stage2Task(i) == Len(council_models) + i

\* What `await task` gives the stage-1 loop for a finished task: the entry
\* stage1_collect_responses appends for it.
Stage1Entry(t) ==
    stage1_collect_responses(<<t.model>>, api_key, <<t.outcome>>)[1]

\* What `await task` gives the stage-2 loop for a finished task.
Stage2Entry(t) ==
    stage2_collect_rankings(stage1_results, <<t.model>>, api_key,
                            <<t.outcome>>, <<t.reply>>).results[1]

FoInit ==
    /\ store = create_conversation(None)
    /\ mode = None
    /\ pc = "fo_stage1"
    /\ nreq = 0
    /\ is_first_message = FALSE
    /\ api_key \in ApiKeys
    /\ council_models \in UNION {HarnessCouncils(n) : n \in 0..MaxModels}
    /\ stage1_results = <<>>
    /\ stage2_results = <<>>
    /\ label_to_model = <<>>
    /\ anonymized_responses = <<>>
    /\ aggregate_rankings = <<>>
    /\ stage3_result = NoStage3
    /\ events = <<>>
    /\ fault = FALSE
    /\ status = None
    /\ user_appends = 0
    /\ assistant_appends = 0
    /\ judge_calls = 0
    /\ chairman_calls = 0
    /\ done_count = 0
    /\ stages_settled = 0
    /\ stage1_absent = {}
    /\ stage2_absent = {}
    /\ title_task = None
    /\ abandoned = FALSE
    /\ ReplicaIdle

\* What no step of a fan-out touches.
foFixed ==
    <<store, mode, nreq, is_first_message, api_key, council_models,
      aggregate_rankings, stage3_result, events, fault, status, user_appends,
      assistant_appends, chairman_calls, done_count, stage1_absent,
      stage2_absent, title_task, abandoned, replicaVars, clientVars>>

\* stage1_collect_responses, the loop that creates the tasks.
fo_dispatch1 ==
    /\ pc = "fo_stage1"
    /\ tasks' = [i \in 1..Len(council_models) |-> Created(council_models[i])]
    /\ pc' = "fo_gather1"
    /\ UNCHANGED <<completed, stageVars, judge_calls, stages_settled, foFixed>>

\* A created task runs to its end, whatever the others do.
fo_complete(i, behaviour) ==
    /\ pc \in {"fo_gather1", "fo_gather2"}
    /\ i \in 1..Len(tasks)
    /\ tasks[i].state = "created"
    /\ tasks' = [tasks EXCEPT ![i].state = "done",
                              ![i].outcome = behaviour.outcome,
                              ![i].reply = behaviour.reply]
    /\ completed' = Append(completed, i)
    /\ UNCHANGED <<pc, stageVars, judge_calls, stages_settled, foFixed>>

\* A stage-1 gather that takes the tasks as they complete.
fo_await1_as_completed ==
    /\ pc = "fo_gather1"
    /\ Len(stage1_results) < Len(completed)
    /\ stage1_results' =
           Append(stage1_results,
                  Stage1Entry(tasks[completed[Len(stage1_results) + 1]]))
    /\ UNCHANGED <<pc, tasks, completed, stage2_results, label_to_model,
                   anonymized_responses, aggregate_rankings, stage3_result,
                   judge_calls, stages_settled, foFixed>>

\* stage1_collect_responses, `await task` of the next task in list order.
fo_await1 ==
    /\ pc = "fo_gather1"
    /\ Len(stage1_results) < Len(council_models)
    /\ LET t == tasks[Stage1Task(Len(stage1_results) + 1)]
       IN  /\ t.state = "done"
           /\ stage1_results' = Append(stage1_results, Stage1Entry(t))
    /\ UNCHANGED <<pc, tasks, completed, stage2_results, label_to_model,
                   anonymized_responses, aggregate_rankings, stage3_result,
                   judge_calls, stages_settled, foFixed>>

\* A stage 1 that returns as soon as one task has failed.
fo_return1_on_failure ==
    /\ pc = "fo_gather1"
    /\ \/ Len(stage1_results) = Len(council_models)
       \/ \E i \in 1..Len(stage1_results) : stage1_results[i].error # None
    /\ stages_settled' = 1
    /\ pc' = "fo_stage2"
    /\ UNCHANGED <<tasks, completed, stageVars, judge_calls, foFixed>>

\* stage1_collect_responses, `return results`.
fo_return1 ==
    /\ pc = "fo_gather1"
    /\ Len(stage1_results) = Len(council_models)
    /\ stages_settled' = 1
    /\ pc' = "fo_stage2"
    /\ UNCHANGED <<tasks, completed, stageVars, judge_calls, foFixed>>

\* stage2_collect_rankings up to its waiting loop: the early return, or
\* the labels and the tasks.
fo_dispatch2 ==
    /\ pc = "fo_stage2"
    /\ LET succ == successful_results(stage1_results)
       IN  IF succ = <<>>
           THEN /\ label_to_model' = <<>>
                /\ anonymized_responses' = <<>>
                /\ stages_settled' = 2
                /\ pc' = "fo_done"
                /\ UNCHANGED <<tasks, judge_calls>>
           ELSE /\ label_to_model' = LabelToModel(succ)
                /\ anonymized_responses' = AnonymizedResponses(succ)
                /\ tasks' = tasks \o [i \in 1..Len(council_models) |->
                                         Created(council_models[i])]
                /\ judge_calls' = Len(council_models)
                /\ pc' = "fo_gather2"
                /\ UNCHANGED stages_settled
    /\ UNCHANGED <<completed, stage1_results, stage2_results,
                   aggregate_rankings, stage3_result, foFixed>>

\* A stage-2 gather that takes the tasks as they complete.
fo_await2_as_completed ==
    /\ pc = "fo_gather2"
    /\ Len(council_models) + Len(stage2_results) < Len(completed)
    /\ stage2_results' =
           Append(stage2_results,
                  Stage2Entry(tasks[completed[Len(council_models)
                                              + Len(stage2_results) + 1]]))
    /\ UNCHANGED <<pc, tasks, completed, stage1_results, label_to_model,
                   anonymized_responses, aggregate_rankings, stage3_result,
                   judge_calls, stages_settled, foFixed>>

\* stage2_collect_rankings, `await task` of the next task in list order.
fo_await2 ==
    /\ pc = "fo_gather2"
    /\ Len(stage2_results) < Len(council_models)
    /\ LET t == tasks[Stage2Task(Len(stage2_results) + 1)]
       IN  /\ t.state = "done"
           /\ stage2_results' = Append(stage2_results, Stage2Entry(t))
    /\ UNCHANGED <<pc, tasks, completed, stage1_results, label_to_model,
                   anonymized_responses, aggregate_rankings, stage3_result,
                   judge_calls, stages_settled, foFixed>>

\* stage2_collect_rankings, `return results, label_to_model`.
fo_return2 ==
    /\ pc = "fo_gather2"
    /\ Len(stage2_results) = Len(council_models)
    /\ stages_settled' = 2
    /\ pc' = "fo_done"
    /\ UNCHANGED <<tasks, completed, stageVars, judge_calls, foFixed>>

\* What a call of the fan-out can come to: a model's answer or failure in
\* stage 1; in stage 2 a judge's failure, its unparseable answer or its
\* ranking of the labels in order.
FoBehaviours ==
    IF pc = "fo_gather1"
    THEN {[outcome |-> o, reply |-> [json |-> "invalid", items |-> <<>>]] :
             o \in HttpOutcomes}
    ELSE {[outcome |-> "exception",
           reply |-> [json |-> "invalid", items |-> <<>>]],
          [outcome |-> "200", reply |-> [json |-> "invalid", items |-> <<>>]],
          [outcome |-> "200",
           reply |-> [json |-> "list",
                      items |-> InOrder(Len(successful_results(
                                                stage1_results)))]]}

FoComplete ==
    /\ pc \in {"fo_gather1", "fo_gather2"}
    /\ \E i \in 1..Len(tasks), b \in FoBehaviours : fo_complete(i, b)

FoNext ==
    \/ fo_dispatch1
    \/ FoComplete
    \/ fo_await1
    \/ fo_return1
    \/ fo_dispatch2
    \/ fo_await2
    \/ fo_return2

FoSpec == FoInit /\ [][FoNext]_vars

(***************************************************************************)
(* github_storage.py: the conversation's file in the repository.  Its sha  *)
(* is the blob hash of its content, which names the content.  A call of    *)
(* the GitHub API ends in a response ("200", "404", ...) or an exception.  *)
(***************************************************************************)
\* save_file(..., retries=3) and get_file(..., retries=3)
Retries == 3

\* sha = None
NoSha == Absent

\* response.json().get("sha") of a file with this content
Sha(content) == content

\* A background thread: the function it runs, where it stands, the record
\* it was given, the attempt of its retry loop, the sha it fetched and,
\* when it returns, what it returns.
Unit(kind, start, content) ==
    [kind |-> kind, pc |-> start, content |-> content, attempt |-> 0,
     sha |-> NoSha, ok |-> FALSE]

\* The thread's function returns; its locals are gone.
Finish(u, ok) ==
    [u EXCEPT !.pc = "done", !.ok = ok, !.attempt = 0, !.sha = NoSha]

\* The end of one pass of a retry loop that did not return: the next
\* attempt, or the return after the loop.
NextAttempt(u, again) ==
    IF u.attempt + 1 >= Retries
    THEN Finish(u, FALSE)
    ELSE [u EXCEPT !.attempt = @ + 1, !.pc = again, !.sha = NoSha]

\* The PUT is accepted when it names the file's current sha, or names none
\* and there is no file.
PutAccepted(u, rem) ==
    \/ rem.exists /\ u.sha = Sha(rem.content)
    \/ ~rem.exists /\ u.sha = NoSha

\* save_file, the GET of one attempt: the sha on 200, none otherwise.
save_file_get(u, rem, outcome) ==
    IF outcome = "200"
    THEN [u EXCEPT !.sha = Sha(rem.content), !.pc = "put"]
    ELSE IF outcome = "exception"
    THEN NextAttempt(u, "get")
    ELSE [u EXCEPT !.sha = NoSha, !.pc = "put"]

\* A save_file whose refused PUT is sent again with the sha it already has.
save_file_put_stale(u, rem, outcome) ==
    IF outcome = "served" /\ PutAccepted(u, rem)
    THEN [unit |-> Finish(u, TRUE),
          remote |-> [exists |-> TRUE, content |-> u.content]]
    ELSE [unit |-> IF u.attempt + 1 >= Retries
                   THEN Finish(u, FALSE)
                   ELSE [u EXCEPT !.attempt = @ + 1],
          remote |-> rem]

\* save_file, the PUT of one attempt: True on 200/201; a 409, any other
\* status and an exception all end the attempt.
save_file_put(u, rem, outcome) ==
    IF outcome = "served" /\ PutAccepted(u, rem)
    THEN [unit |-> Finish(u, TRUE),
          remote |-> [exists |-> TRUE, content |-> u.content]]
    ELSE [unit |-> NextAttempt(u, "get"), remote |-> rem]

\* delete_file, the GET: False unless it answers 200.
delete_file_get(u, rem, outcome) ==
    IF outcome = "200"
    THEN [u EXCEPT !.sha = Sha(rem.content), !.pc = "delete"]
    ELSE Finish(u, FALSE)

\* delete_file, the DELETE: True exactly on 200.
delete_file_delete(u, rem, outcome) ==
    IF outcome = "served" /\ rem.exists /\ u.sha = Sha(rem.content)
    THEN [unit |-> Finish(u, TRUE),
          remote |-> [exists |-> FALSE, content |-> Absent]]
    ELSE [unit |-> Finish(u, FALSE), remote |-> rem]

\* get_file, one attempt: the decoded content on 200, None on 404; a 403,
\* any other status and an exception go to the next attempt.
get_file(u, rem, outcome) ==
    IF outcome = "200"
    THEN [unit |-> Finish(u, TRUE), found |-> TRUE, content |-> rem.content]
    ELSE IF outcome = "404"
    THEN [unit |-> Finish(u, FALSE), found |-> FALSE, content |-> Absent]
    ELSE [unit |-> NextAttempt(u, "fetch"), found |-> FALSE,
          content |-> Absent]

\* list_files: the names on 200, [] otherwise.
list_files(rem, outcome) == outcome = "200" /\ rem.exists

\* Responses the API can give to a read of the file; every status other
\* than 200 and 404 is handled as 403 is.
GetOutcomes(rem) ==
    (IF rem.exists THEN {"200"} ELSE {"404"}) \cup {"403", "exception"}

\* What can become of a PUT or DELETE.
WriteOutcomes == {"served", "500", "exception"}

(***************************************************************************)
(* storage.py with its background threads, and the endpoints of main.py    *)
(* that return what it returns.                                            *)
(***************************************************************************)
\* client_id of a stored record and X-Client-ID of a call: a client's id,
\* or none.
ClientIds == {"alice", "bob", None}

\* A get_conversation that hides the record from every caller whose id is
\* not the stored one.
get_conversation_strict(st, client_id) ==
    IF ~st.exists
    THEN [found |-> FALSE, value |-> Absent]
    ELSE IF client_id # None /\ st.client_id # client_id
    THEN [found |-> FALSE, value |-> Absent]
    ELSE [found |-> TRUE, value |-> st]

\* get_conversation on the local file: None when there is no file, and
\* when the caller and the record both name an owner and they differ.
get_conversation(st, client_id) ==
    IF ~st.exists
    THEN [found |-> FALSE, value |-> Absent]
    ELSE IF client_id # None /\ st.client_id # None /\ st.client_id # client_id
    THEN [found |-> FALSE, value |-> Absent]
    ELSE [found |-> TRUE, value |-> st]

\* main.get_conversation: 404 "Conversation not found" for None.
get_conversation_endpoint(st, client_id) ==
    LET conversation == get_conversation(st, client_id)
    IN  IF ~conversation.found
        THEN [status |-> "404", value |-> Absent]
        ELSE [status |-> "200", value |-> conversation.value]

\* list_conversations: the local files, filtered by client_id when given.
list_conversations(st, client_id) ==
    IF st.exists /\ (client_id = None \/ st.client_id = client_id)
    THEN [status |-> "200", value |-> st]
    ELSE [status |-> "200", value |-> Absent]

\* The record add_user_message / add_assistant_message write: the record
\* they read with the message appended.
Appended(snap, role) ==
    [snap EXCEPT !.messages =
        Append(@, IF role = "user"
                  THEN UserMessage
                  ELSE AssistantMessage(AllFailedStage3))]

\* A scheduling that starts the thread twice.
Start_twice(kind, start, content) ==
    IF enabled
    THEN units (+) SetToBag({Unit(kind, start, content)})
               (+) SetToBag({Unit(kind, start, content)})
    ELSE units

\* A scheduling that starts the thread whatever the remote tier's flag.
Start_unconditional(kind, start, content) ==
    units (+) SetToBag({Unit(kind, start, content)})

\* threading.Thread(target=...).start() when the remote tier is enabled.
Start(kind, start, content) ==
    IF enabled
    THEN units (+) SetToBag({Unit(kind, start, content)})
    ELSE units

\* Thread u has moved to u2; a thread whose function returned is gone.
Step(u, u2) ==
    IF u2.pc = "done"
    THEN units (-) SetToBag({u})
    ELSE (units (-) SetToBag({u})) (+) SetToBag({u2})

Running == BagToSet(units)

\* Everything of the send-message pipeline.
requestFlowVars ==
    <<requestVars, stageVars, countVars, pc, nreq, events, fault, status,
      user_appends, assistant_appends, fanoutVars>>

\* What the storage calls below leave alone.
pipelineVars == <<requestFlowVars, clientVars>>

\* A conversation with one exchange stored.
Populated(client_id) ==
    Appended(Appended(create_conversation(client_id), "user"), "assistant")

\* The repository before the first call: nothing, or the file of the
\* conversation as an earlier run of the server pushed it.
RemoteStarts(st) ==
    {NoRemote}
    \cup {[exists |-> TRUE, content |-> Populated(c)] :
             c \in IF st.exists THEN {st.client_id} ELSE ClientIds}

\* The server starts with one of these records on its disk.
StStart(stores) ==
    /\ enabled \in BOOLEAN
    /\ store \in stores
    /\ remote \in IF enabled THEN RemoteStarts(store) ELSE {NoRemote}
    /\ units = EmptyBag
    /\ last_op = NoCall
    /\ result = NoResult
    /\ writers = [w \in Writers |-> IdleWriter]
    /\ deleted = FALSE
    /\ tasks = <<>>
    /\ completed = <<>>
    /\ client = NoClientCall
    /\ slept = <<>>
    /\ mode = None
    /\ pc = "idle"
    /\ nreq = 0
    /\ is_first_message = FALSE
    /\ api_key = None
    /\ council_models = <<>>
    /\ stage1_results = <<>>
    /\ stage2_results = <<>>
    /\ label_to_model = <<>>
    /\ anonymized_responses = <<>>
    /\ aggregate_rankings = <<>>
    /\ stage3_result = NoStage3
    /\ events = <<>>
    /\ fault = FALSE
    /\ status = None
    /\ user_appends = 0
    /\ assistant_appends = 0
    /\ judge_calls = 0
    /\ chairman_calls = 0
    /\ done_count = 0
    /\ stages_settled = 0
    /\ stage1_absent = {}
    /\ stage2_absent = {}
    /\ title_task = None
    /\ abandoned = FALSE

StInit == StStart({Absent} \cup {Populated(c) : c \in ClientIds})

\* A call that starts a thread needs room for it.
CanStart == ~enabled \/ BagCardinality(units) < MaxUnits

\* The call being made.
Call(name, client_id) == last_op' = [name |-> name, client_id |-> client_id]

\* main.create_conversation: a fresh uuid, so nothing is stored under it.
op_create(client_id) ==
    /\ last_op = NoCall /\ ~store.exists /\ ~remote.exists
    /\ CanStart
    /\ Call("create", client_id)
    /\ store' = create_conversation(client_id)
    /\ units' = Start("save", "get", store')
    /\ result' = [status |-> "200", value |-> store']
    /\ UNCHANGED <<enabled, deleted, remote, writers, pipelineVars>>

\* A get that, on a local miss, fetches the remote copy before it returns.
op_get_blocking(client_id) ==
    /\ CanStart
    /\ Call("get", client_id)
    /\ store' = IF ~store.exists /\ enabled /\ remote.exists
                THEN remote.content
                ELSE store
    /\ result' = get_conversation_endpoint(store', client_id)
    /\ UNCHANGED <<units, enabled, deleted, remote, writers, pipelineVars>>

\* main.get_conversation: a local miss starts the pull and returns.
op_get(client_id) ==
    /\ CanStart
    /\ Call("get", client_id)
    /\ result' = get_conversation_endpoint(store, client_id)
    /\ units' = IF ~store.exists THEN Start("pull", "fetch", Absent) ELSE units
    /\ UNCHANGED <<store, enabled, deleted, remote, writers, pipelineVars>>

\* main.list_conversations
op_list(client_id) ==
    /\ CanStart
    /\ Call("list", client_id)
    /\ result' = list_conversations(store, client_id)
    /\ units' = Start("list", "list", Absent)
    /\ UNCHANGED <<store, enabled, deleted, remote, writers, pipelineVars>>

\* storage.delete_conversation
op_delete ==
    /\ CanStart
    /\ Call("delete", None)
    /\ LET d == delete_conversation(store)
       IN  /\ store' = d.store
           /\ result' = [status |-> IF d.deleted THEN "True" ELSE "False",
                         value |-> Absent]
           /\ deleted' = (deleted \/ (d.deleted /\ \A w \in Writers :
                                                    writers[w].pc # "read"))
    /\ units' = Start("delete", "get", Absent)
    /\ UNCHANGED <<enabled, remote, writers, pipelineVars>>

\* storage.update_conversation_title
op_title ==
    /\ CanStart
    /\ Call("title", None)
    /\ LET u == update_conversation_title(store, "generated-title")
       IN  /\ store' = u.store
           /\ result' = [status |-> IF u.raised THEN "ValueError" ELSE "ok",
                         value |-> u.store]
           /\ units' = IF u.raised
                       THEN Start("pull", "fetch", Absent)
                       ELSE Start("save", "get", u.store)
    /\ UNCHANGED <<enabled, deleted, remote, writers, pipelineVars>>

\* add_user_message / add_assistant_message, the read: get_conversation,
\* ValueError when it gives None.
begin_append(w, role) ==
    /\ writers[w].pc = "idle"
    /\ CanStart
    /\ Call("append", None)
    /\ IF get_conversation(store, None).found
       THEN /\ writers' = [writers EXCEPT
                              ![w] = [pc |-> "read", snap |-> store,
                                      role |-> role, index |-> 0]]
            /\ UNCHANGED <<units, result>>
       ELSE /\ result' = [status |-> "ValueError", value |-> Absent]
            /\ units' = Start("pull", "fetch", Absent)
            /\ UNCHANGED writers
    /\ UNCHANGED <<store, enabled, deleted, remote, pipelineVars>>

\* An append that writes its message onto the record as it is now.
finish_append_current(w) ==
    /\ writers[w].pc = "read"
    /\ CanStart
    /\ Call("append", None)
    /\ store' = Appended(store, writers[w].role)
    /\ units' = Start("save", "get", store')
    /\ writers' = [writers EXCEPT ![w].pc = "done"]
    /\ result' = [status |-> "ok", value |-> store']
    /\ UNCHANGED <<enabled, deleted, remote, pipelineVars>>

\* add_user_message / add_assistant_message, the write: save_conversation
\* writes the whole record and starts the push.
finish_append(w) ==
    /\ writers[w].pc = "read"
    /\ CanStart
    /\ Call("append", None)
    /\ store' = Appended(writers[w].snap, writers[w].role)
    /\ units' = Start("save", "get", store')
    /\ writers' = [writers EXCEPT ![w].pc = "done"]
    /\ result' = [status |-> "ok", value |-> store']
    /\ UNCHANGED <<enabled, deleted, remote, pipelineVars>>

\* _sync_to_github_background, save_file's GET
unit_save_get(u, outcome) ==
    /\ u.kind = "save" /\ u.pc = "get"
    /\ units' = Step(u, save_file_get(u, remote, outcome))
    /\ UNCHANGED <<store, enabled, deleted, remote, last_op, result, writers,
                   pipelineVars>>

\* A push whose exception reaches the caller that started it.
unit_save_put_propagating(u, outcome) ==
    /\ u.kind = "save" /\ u.pc = "put"
    /\ LET r == save_file_put(u, remote, outcome)
       IN  /\ units' = Step(u, r.unit)
           /\ remote' = r.remote
    /\ result' = IF outcome = "exception"
                 THEN [status |-> "500", value |-> Absent]
                 ELSE result
    /\ UNCHANGED <<store, enabled, deleted, last_op, writers, pipelineVars>>

\* _sync_to_github_background, save_file's PUT
unit_save_put(u, outcome) ==
    /\ u.kind = "save" /\ u.pc = "put"
    /\ LET r == save_file_put(u, remote, outcome)
       IN  /\ units' = Step(u, r.unit)
           /\ remote' = r.remote
    /\ UNCHANGED <<store, enabled, deleted, last_op, result, writers,
                   pipelineVars>>

\* _delete_remote_conversation_background, delete_file's GET
unit_delete_get(u, outcome) ==
    /\ u.kind = "delete" /\ u.pc = "get"
    /\ units' = Step(u, delete_file_get(u, remote, outcome))
    /\ UNCHANGED <<store, enabled, deleted, remote, last_op, result, writers,
                   pipelineVars>>

\* _delete_remote_conversation_background, delete_file's DELETE
unit_delete_delete(u, outcome) ==
    /\ u.kind = "delete" /\ u.pc = "delete"
    /\ LET r == delete_file_delete(u, remote, outcome)
       IN  /\ units' = Step(u, r.unit)
           /\ remote' = r.remote
    /\ UNCHANGED <<store, enabled, deleted, last_op, result, writers,
                   pipelineVars>>

\* _sync_remote_conversations_background up to its get_file: list_files,
\* then the test that there is no local file.
unit_list(u, outcome) ==
    /\ u.kind = "list" /\ u.pc = "list"
    /\ units' = Step(u, IF list_files(remote, outcome) /\ ~store.exists
                        THEN [u EXCEPT !.pc = "fetch"]
                        ELSE Finish(u, FALSE))
    /\ UNCHANGED <<store, enabled, deleted, remote, last_op, result, writers,
                   pipelineVars>>

\* _sync_remote_conversation_background and the loop body of
\* _sync_remote_conversations_background: one attempt of get_file, and the
\* local file written when it gave a record.
unit_fetch(u, outcome) ==
    /\ u.kind \in {"pull", "list"} /\ u.pc = "fetch"
    /\ LET r == get_file(u, remote, outcome)
       IN  /\ units' = Step(u, r.unit)
           /\ store' = IF r.found /\ r.content.exists THEN r.content ELSE store
    /\ UNCHANGED <<enabled, deleted, remote, last_op, result, writers,
                   pipelineVars>>

Create(callers) == \E c \in callers : op_create(c)
Get(callers) == \E c \in callers : op_get(c)
List(callers) == \E c \in callers : op_list(c)
BeginAppend(ws, roles) ==
    \E w \in ws, role \in roles : begin_append(w, role)
FinishAppend(ws) == \E w \in ws : finish_append(w)

\* main.send_message titles the conversation when the message it stored
\* is the first one.
FirstTitle == Len(store.messages) = 1 /\ op_title

SaveGet == \E u \in Running, o \in GetOutcomes(remote) : unit_save_get(u, o)
SavePut == \E u \in Running, o \in WriteOutcomes : unit_save_put(u, o)
DeleteGet == \E u \in Running, o \in GetOutcomes(remote) : unit_delete_get(u, o)
DeleteDelete == \E u \in Running, o \in WriteOutcomes : unit_delete_delete(u, o)
ListFiles == \E u \in Running, o \in GetOutcomes(remote) : unit_list(u, o)
Fetch == \E u \in Running, o \in GetOutcomes(remote) : unit_fetch(u, o)

\* The store with the remote tier off: any owner, any caller, two callers
\* appending at a time.
LcInit ==
    /\ StInit
    /\ ~enabled

LcNext ==
    \/ Create(ClientIds)
    \/ Get(ClientIds)
    \/ List(ClientIds)
    \/ op_delete
    \/ op_title
    \/ BeginAppend(Writers, {"user", "assistant"})
    \/ FinishAppend(Writers)

LcSpec == LcInit /\ [][LcNext]_vars

\* The store with its background threads: one caller at a time, whose
\* append is the user message.
RpInit ==
    /\ StInit
    /\ store.client_id = None
    /\ remote.content.client_id = None

RpNext ==
    \/ Create({None})
    \/ Get({None})
    \/ List({None})
    \/ op_delete
    \/ FirstTitle
    \/ BeginAppend({1}, {"user"})
    \/ FinishAppend({1})
    \/ SaveGet
    \/ SavePut
    \/ DeleteGet
    \/ DeleteDelete
    \/ ListFiles
    \/ Fetch

RpSpec == RpInit /\ [][RpNext]_vars

\* The same store and threads with the remote tier on and a repository
\* that answers every request: a GET with 200 or 404 as the file is there
\* or not, a PUT or DELETE with success when it names the file's sha (409
\* otherwise).
Served == IF remote.exists THEN "200" ELSE "404"

QtInit ==
    /\ RpInit
    /\ enabled

QtNext ==
    \/ Create({None})
    \/ op_delete
    \/ FirstTitle
    \/ BeginAppend({1}, {"user"})
    \/ FinishAppend({1})
    \/ \E u \in Running : unit_save_get(u, Served)
    \/ \E u \in Running : unit_save_put(u, "served")
    \/ \E u \in Running : unit_delete_get(u, Served)
    \/ \E u \in Running : unit_delete_delete(u, "served")
    \/ \E u \in Running : unit_fetch(u, Served)

QtSpec == QtInit /\ [][QtNext]_vars

(***************************************************************************)
(* main.py: the endpoints that address a stored conversation on behalf of  *)
(* a caller (X-Client-ID): delete, title update, send-message (its check,  *)
(* its user message and, when its council has run, its assistant message)  *)
(* and regenerate-stage3, whose chairman call is awaited between reading   *)
(* the record and writing it back.  The threads the endpoints start are    *)
(* started and not run further here.                                       *)
(***************************************************************************)
\* A stage 3 the chairman synthesized.
Synthesized == [response |-> ChairmanText, error |-> None]

\* What an assistant message with that stage 3 holds as stage1 and stage2.
StoredStage1 == stage1_collect_responses(CouncilOf(1), "sk-key", <<"200">>)

StoredStage2 ==
    stage2_collect_rankings(
        StoredStage1, CouncilOf(1), "sk-key", <<"200">>,
        <<[json |-> "list", items |-> InOrder(1)]>>).results

\* A conversation holding one question and its synthesized answer.
Answered(client_id) ==
    [create_conversation(client_id) EXCEPT
        !.messages = <<UserMessage, AssistantMessage(Synthesized)>>]

\* message.get("role") == "assistant" with stage1 and stage2 non-empty:
\* stage2 is empty exactly in the message of a council whose stage 1 had
\* no success, which carries the all-failed payload.
Regenerable(message) ==
    message.role = "assistant" /\ message.stage3 # AllFailedStage3

\* get_conversation as the endpoints call it: a local miss starts the
\* pull thread.
PullOnMiss == IF ~store.exists THEN Start("pull", "fetch", Absent) ELSE units

NotFound404 == [status |-> "404", value |-> Absent]

epFixed ==
    <<requestVars, stageVars, countVars, events, fault, status, user_appends,
      assistant_appends, fanoutVars, clientVars>>

\* A delete endpoint that deletes without asking whose record it is.
ep_delete_unchecked(client_id) ==
    /\ CanStart
    /\ Call("delete", client_id)
    /\ store' = delete_conversation(store).store
    /\ result' = IF store.exists
                 THEN [status |-> "200", value |-> Absent]
                 ELSE NotFound404
    /\ units' = Start("delete", "get", Absent)
    /\ deleted' = (deleted \/ (store.exists /\ \A w \in Writers :
                                                  writers[w].pc # "read"))
    /\ UNCHANGED <<enabled, remote, writers, pipelineVars>>

\* delete_conversation_endpoint
ep_delete(client_id) ==
    /\ CanStart
    /\ Call("delete", client_id)
    /\ IF ~get_conversation(store, client_id).found
       THEN /\ result' = NotFound404
            /\ units' = PullOnMiss
            /\ UNCHANGED <<store, deleted>>
       ELSE /\ store' = delete_conversation(store).store
            /\ result' = [status |-> "200", value |-> Absent]
            /\ units' = Start("delete", "get", Absent)
            /\ deleted' = (deleted \/ \A w \in Writers :
                                         writers[w].pc # "read")
    /\ UNCHANGED <<enabled, remote, writers, pipelineVars>>

\* update_conversation_title_endpoint
ep_title(client_id) ==
    /\ CanStart
    /\ Call("title", client_id)
    /\ IF ~get_conversation(store, client_id).found
       THEN /\ result' = NotFound404
            /\ units' = PullOnMiss
            /\ store' = store
       ELSE /\ store' = update_conversation_title(store, "renamed").store
            /\ result' = [status |-> "200", value |-> store']
            /\ units' = Start("save", "get", store')
    /\ UNCHANGED <<enabled, deleted, remote, writers, pipelineVars>>

\* send_message up to its first await: the check and add_user_message.
ep_send(client_id) ==
    /\ pc \in {"idle", "done"}
    /\ nreq < MaxRequests
    /\ CanStart
    /\ Call("send", client_id)
    /\ IF ~get_conversation(store, client_id).found
       THEN /\ result' = NotFound404
            /\ units' = PullOnMiss
            /\ UNCHANGED <<store, pc, nreq>>
       ELSE /\ store' = add_user_message(store).store
            /\ result' = [status |-> None, value |-> store']
            /\ units' = Start("save", "get", store')
            /\ pc' = "council"
            /\ nreq' = nreq + 1
    /\ UNCHANGED <<enabled, deleted, remote, writers, epFixed>>

\* send_message after run_full_council: add_assistant_message, which
\* raises when the record is gone.
ep_reply ==
    /\ pc = "council"
    /\ CanStart
    /\ LET w == add_assistant_message(store, Synthesized)
       IN  /\ store' = w.store
           /\ result' = [status |-> IF w.raised THEN "500" ELSE "200",
                         value |-> w.store]
           /\ units' = IF w.raised
                       THEN PullOnMiss
                       ELSE Start("save", "get", w.store)
    /\ pc' = "done"
    /\ UNCHANGED <<enabled, deleted, remote, writers, last_op, nreq, epFixed>>

\* regenerate_stage3_endpoint up to its await: the checks on the record,
\* the index and the message.
begin_regenerate(w, client_id, message_index) ==
    /\ writers[w].pc = "idle"
    /\ CanStart
    /\ Call("regenerate", client_id)
    /\ LET conversation == get_conversation(store, client_id)
       IN  IF ~conversation.found
           THEN /\ result' = NotFound404
                /\ units' = PullOnMiss
                /\ UNCHANGED writers
           ELSE IF message_index >= Len(store.messages)
           THEN /\ result' = NotFound404
                /\ UNCHANGED <<units, writers>>
           ELSE IF ~Regenerable(store.messages[message_index + 1])
           THEN /\ result' = [status |-> "400", value |-> Absent]
                /\ UNCHANGED <<units, writers>>
           ELSE /\ writers' = [writers EXCEPT
                                  ![w] = [pc |-> "chairman", snap |-> store,
                                          role |-> "assistant",
                                          index |-> message_index]]
                /\ UNCHANGED <<units, result>>
    /\ UNCHANGED <<store, enabled, deleted, remote, pipelineVars>>

\* regenerate_stage3_endpoint after the chairman call: the new stage 3 is
\* set in the record that was read and save_conversation writes that
\* record.
finish_regenerate(w, key, outcome) ==
    /\ writers[w].pc = "chairman"
    /\ CanStart
    /\ Call("regenerate", None)
    /\ LET stage3 == stage3_synthesize_final(
                         StoredStage1, StoredStage2, key, outcome).result
       IN  store' = [writers[w].snap EXCEPT
                        !.messages[writers[w].index + 1].stage3 = stage3]
    /\ units' = Start("save", "get", store')
    /\ writers' = [writers EXCEPT ![w].pc = "done"]
    /\ result' = [status |-> "200", value |-> store']
    /\ UNCHANGED <<enabled, deleted, remote, pipelineVars>>

EpInit ==
    /\ StStart({Answered(c) : c \in ClientIds})
    /\ remote.exists => remote.content = store

EpNext ==
    \/ \E c \in ClientIds : ep_delete(c)
    \/ \E c \in ClientIds : ep_title(c)
    \/ \E c \in ClientIds : ep_send(c)
    \/ ep_reply
    \/ \E c \in ClientIds, i \in 0..2 : begin_regenerate(1, c, i)
    \/ \E key \in ApiKeys, o \in HttpOutcomes : finish_regenerate(1, key, o)

EpSpec == EpInit /\ [][EpNext]_vars

(***************************************************************************)
(* github_storage.py with its clock: one get_file or save_file call, the   *)
(* responses its requests get and the time.sleep calls it makes.  Time is  *)
(* counted in half seconds.                                                *)
(***************************************************************************)
Min(a, b) == IF a <= b THEN a ELSE b

Max(a, b) == IF a >= b THEN a ELSE b

\* reset_time - time.time() of a 403 response: already past, three
\* seconds ahead, a minute ahead.
Hints == {0, 6, 120}

\* get_file on 403: sleep_time = max(1, reset_time - time.time()), then
\* time.sleep(min(sleep_time, 5)).
RateLimitSleep(hint) == Min(Max(2, hint), 10)

\* time.sleep(0.5 * (2 ** attempt))
Backoff(attempt) == 2 ^ attempt

\* What a request of the client can get: a status, with the wait hint
\* a 403 carries, or an exception.
Responses(statuses) ==
    {[status |-> x, hint |-> None] : x \in statuses \ {"403"}}
    \cup {[status |-> "403", hint |-> h] :
             h \in IF "403" \in statuses THEN Hints ELSE {}}

\* A request, the response it got and the sleeps made before the next
\* request.
Exchange(request, response, sleeps) ==
    [request |-> request, status |-> response.status,
     hint |-> response.hint, sleeps |-> sleeps]

\* The call returns.
Return(value) ==
    [client EXCEPT !.pc = "returned", !.value = value, !.sha = NoSha]

\* The end of a pass of the retry loop: the next pass, or the return
\* after the loop.
NextPass(failure) ==
    IF client.attempt + 1 >= Retries
    THEN Return(failure)
    ELSE [client EXCEPT !.attempt = @ + 1, !.pc = "get", !.sha = NoSha]

\* A method of the client is called; with GitHub disabled it returns at
\* once: None from get_file, [] from list_files, False from save_file and
\* delete_file.  The passes of list_files and delete_file against the API
\* are the thread steps unit_list, unit_delete_get and unit_delete_delete.
client_call(fn) ==
    /\ client.pc \in {"idle", "returned"}
    /\ client' =
           IF enabled
           THEN [call |-> fn, pc |-> "get", attempt |-> 0, sha |-> NoSha,
                 value |-> None]
           ELSE [call |-> fn, pc |-> "returned", attempt |-> 0,
                 sha |-> NoSha,
                 value |-> IF fn = "get_file" THEN None
                           ELSE IF fn = "list_files" THEN "[]"
                           ELSE "False"]
    /\ slept' = <<>>
    /\ UNCHANGED <<store, replicaVars, requestFlowVars>>

\* get_file, one pass of its loop.
get_file_pass(response) ==
    /\ client.call = "get_file" /\ client.pc = "get"
    /\ IF response.status = "200"
       THEN /\ client' = Return("content")
            /\ slept' = Append(slept, Exchange("GET", response, <<>>))
       ELSE IF response.status = "404"
       THEN /\ client' = Return(None)
            /\ slept' = Append(slept, Exchange("GET", response, <<>>))
       ELSE IF response.status = "403"
       THEN /\ client' = NextPass(None)
            /\ slept' = Append(slept,
                   Exchange("GET", response,
                            <<RateLimitSleep(response.hint),
                              Backoff(client.attempt)>>))
       ELSE /\ client' = NextPass(None)
            /\ slept' = Append(slept,
                   Exchange("GET", response, <<Backoff(client.attempt)>>))
    /\ UNCHANGED <<store, replicaVars, requestFlowVars>>

\* save_file, the GET of one pass: the sha on 200, none on any other
\* status; an exception ends the pass.
save_file_pass_get(response) ==
    /\ client.call = "save_file" /\ client.pc = "get"
    /\ IF response.status = "200"
       THEN /\ client' = [client EXCEPT !.sha = Sha(remote.content),
                                        !.pc = "put"]
            /\ slept' = Append(slept, Exchange("GET", response, <<>>))
       ELSE IF response.status = "exception"
       THEN /\ client' = NextPass("False")
            /\ slept' = Append(slept,
                   Exchange("GET", response, <<Backoff(client.attempt)>>))
       ELSE /\ client' = [client EXCEPT !.sha = NoSha, !.pc = "put"]
            /\ slept' = Append(slept, Exchange("GET", response, <<>>))
    /\ UNCHANGED <<store, replicaVars, requestFlowVars>>

\* save_file, the PUT of one pass: True on 200/201; a 409 goes to the
\* next pass at once; any other status and an exception go there after
\* the backoff sleep.
save_file_pass_put(response) ==
    /\ client.call = "save_file" /\ client.pc = "put"
    /\ IF response.status = "200"
       THEN /\ client' = Return("True")
            /\ remote' = [exists |-> TRUE, content |-> store]
            /\ slept' = Append(slept, Exchange("PUT", response, <<>>))
       ELSE IF response.status = "409"
       THEN /\ client' = NextPass("False")
            /\ remote' = remote
            /\ slept' = Append(slept, Exchange("PUT", response, <<>>))
       ELSE /\ client' = NextPass("False")
            /\ remote' = remote
            /\ slept' = Append(slept,
                   Exchange("PUT", response, <<Backoff(client.attempt)>>))
    /\ UNCHANGED <<store, enabled, units, last_op, result, writers, deleted,
                   requestFlowVars>>

\* The statuses the API can answer a GET of the file with.
GetStatuses ==
    (IF remote.exists THEN {"200"} ELSE {"404"})
    \cup {"403", "500", "exception"}

\* The statuses it can answer the PUT with: 200 when the sha sent is the
\* file's, 409 when another writer changed the file meanwhile, 422 when
\* the file exists and no sha was sent.
PutStatuses ==
    (IF remote.exists /\ client.sha = NoSha THEN {"422"} ELSE {"200"})
    \cup {"409", "403", "500", "exception"}

ClientCall == \E fn \in {"get_file", "save_file"} : client_call(fn)

GetFilePass ==
    /\ client.call = "get_file" /\ client.pc = "get"
    /\ \E response \in Responses(GetStatuses) : get_file_pass(response)

SaveFileGet ==
    /\ client.call = "save_file" /\ client.pc = "get"
    /\ \E response \in Responses(GetStatuses) : save_file_pass_get(response)

SaveFilePut ==
    /\ client.call = "save_file" /\ client.pc = "put"
    /\ \E response \in Responses(PutStatuses) : save_file_pass_put(response)

RlInit ==
    /\ StInit
    /\ store.exists /\ store.client_id = None

RlNext ==
    \/ ClientCall
    \/ GetFilePass
    \/ SaveFileGet
    \/ SaveFilePut

RlSpec == RlInit /\ [][RlNext]_vars

\* The store and the client with the remote tier off: every function of
\* storage.py and every method of the client.
ClientMethods == {"get_file", "save_file", "list_files", "delete_file"}

DsCall == \E fn \in ClientMethods : client_call(fn)

DsInit ==
    /\ StInit
    /\ ~enabled

DsNext ==
    \/ Create(ClientIds)
    \/ Get(ClientIds)
    \/ List(ClientIds)
    \/ op_delete
    \/ op_title
    \/ BeginAppend({1}, {"user", "assistant"})
    \/ FinishAppend({1})
    \/ DsCall

DsSpec == DsInit /\ [][DsNext]_vars

(***************************************************************************)
(* Claims.                                                                 *)
(***************************************************************************)
Last(s) == s[Len(s)]

\* The request has returned (or its stream has ended).
Finished == pc = "done"

\* C1 (as claimed): once a send-message request that appended its user
\* message has finished, it has appended exactly one assistant message and
\* no exception has reached the caller.
C1_UserMessageGetsItsReply ==
    (Finished /\ user_appends = 1) => (assistant_appends = 1 /\ ~fault)

\* Stage 1 has settled with no successful result.
Stage1AllFailed ==
    /\ stages_settled >= 1
    /\ \A i \in 1..Len(stage1_results) : stage1_results[i].error # None

\* C2: when stage 1 yields zero successes, stage 2 is empty (no judge task,
\* no label), stage 3 is the fixed failure payload without a chairman call,
\* and the pipeline settles its last stage exactly once before the request
\* ends (a stream cancelled because its caller went away ends where it
\* stood: at most once).
C2_AllFailedShortCircuits ==
    Stage1AllFailed =>
        /\ stages_settled >= 2 =>
              /\ stage2_results = <<>>
              /\ DOMAIN label_to_model = {}
              /\ judge_calls = 0
        /\ stages_settled = 3 =>
              /\ stage3_result = AllFailedStage3
              /\ stage3_result.error # None
              /\ chairman_calls = 0
        /\ done_count = (IF stages_settled = 3 THEN 1 ELSE 0)
        /\ (Finished /\ ~abandoned) => done_count = 1

\* C2 witness: a request over a non-empty council ran all three stages with
\* every stage-1 call failing, and stored the failure payload.
C2_Witness ==
    /\ Finished
    /\ Stage1AllFailed
    /\ Len(council_models) >= 1
    /\ stages_settled = 3
    /\ assistant_appends = 1
    /\ store.exists
    /\ Last(store.messages).stage3 = AllFailedStage3

\* C3 (as claimed): the assistant message of a request is appended exactly
\* once, and only after stage 3 has settled.
C3_AssistantAppendedExactlyOnce ==
    /\ assistant_appends <= 1
    /\ assistant_appends = 1 => stages_settled = 3
    /\ (Finished /\ user_appends = 1) => assistant_appends = 1

Terminal == {"complete", "error"}

\* C4 (as claimed): whenever a stream's terminal event has been emitted,
\* the assistant-message write of that request has completed.
C4_TerminalEventAfterWrite ==
    (mode = "stream" /\ events # <<>> /\ Last(events) \in Terminal)
        => assistant_appends = 1

\* C4 (amended): whenever a stream's completion event has been emitted, the
\* assistant-message write of that request has completed (after stage 3);
\* a stream that ends with the error event may have written nothing.
C4_CompleteEventAfterWrite ==
    (\E i \in 1..Len(events) : events[i] = "complete")
        => (assistant_appends = 1 /\ stages_settled = 3)

\* C4 witness: a stream has emitted its completion event and the assistant
\* message it wrote is the last one of the stored conversation.
C4_Witness ==
    /\ mode = "stream"
    /\ events # <<>>
    /\ Last(events) = "complete"
    /\ assistant_appends = 1
    /\ store.exists
    /\ Last(store.messages) = AssistantMessage(stage3_result)

StageEvents ==
    << "stage1_start", "stage1_complete", "stage2_start", "stage2_complete",
       "stage3_start", "stage3_complete" >>

\* What may follow the first k stage events.
AllowedTails(k) ==
    {<<>>, <<"error">>}
    \cup (IF k = Len(StageEvents)
          THEN {<<"title_complete">>, <<"complete">>,
                <<"title_complete", "complete">>,
                <<"title_complete", "error">>}
          ELSE {})

\* C5: the events of a stream are a prefix of the six stage markers in
\* order, then (only after all six) an optional title_complete, then at
\* most one terminal event, which is last; a stream that ran to its end
\* (one that was not cancelled because its caller went away) has exactly
\* one, and a stream that has not ended has none.
C5_EventOrder ==
    mode = "stream" =>
        /\ \E k \in 0..Len(StageEvents) :
              \E tail \in AllowedTails(k) :
                  events = SubSeq(StageEvents, 1, k) \o tail
        /\ (Finished /\ status = "200" /\ ~abandoned) =>
              (events # <<>> /\ Last(events) \in Terminal)
        /\ ~Finished => \A i \in 1..Len(events) : events[i] \notin Terminal

\* C5 witness: a stream that emitted all six markers and then complete.
C5_Witness == events = StageEvents \o <<"complete">>

\* The stage-1 slots whose result is a success.
SuccessSlots == {i \in 1..Len(stage1_results) : stage1_results[i].error = None}

\* The slot of the j-th success, counting in list order.
KthSuccess(j) ==
    CHOOSE i \in SuccessSlots :
        Cardinality({h \in SuccessSlots : h <= i}) = j

\* C6: with k successful stage-1 results out of N, stage 2 assigns exactly
\* the first k letters, the j-th to the model of the j-th successful
\* result in list order; every response sent to the judges is that of a
\* successful result, and (model ids being distinct) no model whose result
\* failed has a label.
C6_LabelsFollowSuccessOrder ==
    stages_settled >= 2 =>
        LET k == Cardinality(SuccessSlots)
        IN  /\ DOMAIN label_to_model = {Letters[j] : j \in 1..k}
            /\ \A j \in 1..k :
                  label_to_model[Letters[j]] = stage1_results[KthSuccess(j)].model
            /\ DOMAIN anonymized_responses \subseteq DOMAIN label_to_model
            /\ \A l \in DOMAIN anonymized_responses :
                  \E i \in SuccessSlots :
                      /\ stage1_results[i].model = label_to_model[l]
                      /\ stage1_results[i].response = anonymized_responses[l]
            /\ (\A i, j \in 1..Len(council_models) :
                    council_models[i] = council_models[j] => i = j)
                  => \A i \in 1..Len(stage1_results) :
                         i \notin SuccessSlots =>
                             \A l \in DOMAIN label_to_model :
                                 label_to_model[l] # stage1_results[i].model

\* C6 witness: the first of two models failed, and the second one got "A".
C6_Witness ==
    /\ stages_settled >= 2
    /\ Len(stage1_results) = 2
    /\ stage1_results[1].error # None
    /\ DOMAIN label_to_model = {"A"}
    /\ label_to_model["A"] = all_models[2]
    /\ DOMAIN anonymized_responses = {"A"}

\* C7 (as claimed): a stage-1 slot whose gateway call yielded absence holds
\* an error reason and no response text.
C7_AbsentCallIsSlotError ==
    \A i \in stage1_absent :
        /\ stage1_results[i].error # None
        /\ stage1_results[i].response = None

\* The judges whose call went through and whose output parsed.
ValidJudges ==
    {i \in 1..Len(stage2_results) :
        i \notin stage2_absent /\ stage2_results[i].ranking.kind # "None"}

\* The places <<judge, 0-based position>> at which model m is named,
\* taken over the judges in J.
Mentions(m, J) ==
    UNION {{<<i, p>> : p \in {q \in 0..(Len(stage2_results[i].ranking.items) - 1) :
                LET l == stage2_results[i].ranking.items[q + 1]
                IN  l \in DOMAIN label_to_model /\ label_to_model[l] = m}} :
           i \in J}

\* L - p for a place.
Points(x) == Len(stage2_results[x[1]].ranking.items) - x[2]

RECURSIVE SumPoints(_)
SumPoints(S) ==
    IF S = {}
    THEN 0
    ELSE LET x == CHOOSE y \in S : TRUE IN Points(x) + SumPoints(S \ {x})

RECURSIVE SumRanks(_)
SumRanks(S) ==
    IF S = {}
    THEN 0
    ELSE LET x == CHOOSE y \in S : TRUE IN (x[2] + 1) + SumRanks(S \ {x})

AllJudges == 1..Len(stage2_results)

\* C8 (as claimed): a judge whose call failed or whose output did not parse
\* adds to no model's total score or rank count and is not counted in the
\* average-score denominator.
C8_FailedJudgeContributesNothing ==
    \A n \in 1..Len(aggregate_rankings) :
        LET e == aggregate_rankings[n]
        IN  /\ e.total_score = SumPoints(Mentions(e.model, ValidJudges))
            /\ e.rankings_count = Cardinality(Mentions(e.model, ValidJudges))
            /\ e.average_score.den = Cardinality(ValidJudges)

\* C9 (as claimed): average_score is total_score over the number of judges
\* that returned a valid ranking, the same for every model; average_rank is
\* the sum of the model's ranks over the number of ranks collected for it.
C9_AverageDenominators ==
    \A n \in 1..Len(aggregate_rankings) :
        LET e == aggregate_rankings[n]
        IN  /\ e.average_score =
                   [num |-> e.total_score, den |-> Cardinality(ValidJudges)]
            /\ e.average_rank =
                   [num |-> SumRanks(Mentions(e.model, AllJudges)),
                    den |-> Cardinality(Mentions(e.model, AllJudges))]

\* The models some judge names through a label of the label map.
MentionedModels ==
    {label_to_model[l] : l \in DOMAIN label_to_model} \cap
    {m \in Range(all_models) : Mentions(m, AllJudges) # {}}

\* C10: the entry at 0-based position p of a ranking of length L adds L - p
\* to the total of the model its label maps to and the rank p + 1 to its
\* ranks: each aggregated model's total_score is the sum of L - p over the
\* places that name it, the sum of its ranks is the sum of p + 1 over them,
\* rankings_count is their number, and the aggregate lists exactly the
\* models that are named, each once.
C10_PositionScores ==
    (pc = "fn_done" /\ ~fault) =>
        /\ {aggregate_rankings[n].model : n \in 1..Len(aggregate_rankings)}
               = MentionedModels
        /\ Len(aggregate_rankings) = Cardinality(MentionedModels)
        /\ \A n \in 1..Len(aggregate_rankings) :
              LET e == aggregate_rankings[n]
                  places == Mentions(e.model, AllJudges)
              IN  /\ e.total_score = SumPoints(places)
                  /\ e.average_rank.num = SumRanks(places)
                  /\ e.rankings_count = Cardinality(places)

\* C10 witness: a model named first by one judge and second by another, in
\* rankings of length two, has total 3 from two ranks that sum to 3.
C10_Witness ==
    /\ pc = "fn_done"
    /\ ~fault
    /\ \E n \in 1..Len(aggregate_rankings) :
          /\ aggregate_rankings[n].total_score = 3
          /\ aggregate_rankings[n].rankings_count = 2
          /\ aggregate_rankings[n].average_rank.num = 3
          /\ \A i \in 1..Len(stage2_results) :
                Len(stage2_results[i].ranking.items) = 2

\* Place x comes before place y in the scan of the judges' rankings.
PlaceBefore(x, y) == x[1] < y[1] \/ (x[1] = y[1] /\ x[2] < y[2])

\* The first place at which model m is named.
FirstPlace(m) ==
    CHOOSE x \in Mentions(m, AllJudges) :
        \A y \in Mentions(m, AllJudges) : x = y \/ PlaceBefore(x, y)

\* C11: the aggregate is sorted by average_score, highest first, and of two
\* models with equal average_score the one named first in the scan of the
\* judges' rankings comes first.
C11_SortedStable ==
    (pc = "fn_done" /\ ~fault) =>
        \A n \in 1..(Len(aggregate_rankings) - 1) :
            LET a == aggregate_rankings[n]
                b == aggregate_rankings[n + 1]
                l == a.average_score.num * b.average_score.den
                r == b.average_score.num * a.average_score.den
            IN  /\ l >= r
                /\ l = r => PlaceBefore(FirstPlace(a.model), FirstPlace(b.model))

\* C11 witness: two models tie and the one listed first is the model of
\* label "B", which the first judge named first.
C11_Witness ==
    /\ pc = "fn_done"
    /\ ~fault
    /\ Len(aggregate_rankings) = 2
    /\ aggregate_rankings[1].average_score = aggregate_rankings[2].average_score
    /\ "B" \in DOMAIN label_to_model
    /\ aggregate_rankings[1].model = label_to_model["B"]
    /\ aggregate_rankings[1].model # aggregate_rankings[2].model

\* Judge i's call went through and returned exactly the ranking r.
Returned(i, r) ==
    /\ i \notin stage2_absent
    /\ stage2_results[i].ranking = [kind |-> "list", items |-> r]

\* Judge i's call failed or its output did not parse.
JudgeFailed(i) == i \in stage2_absent \/ stage2_results[i].ranking.kind = "None"

\* Three models, the second timed out in stage 1; of the three judges one
\* returned [B, A], one returned [A, B] and one failed.
Scenario ==
    /\ pc = "fn_done"
    /\ Len(council_models) = 3
    /\ stage1_absent = {2}
    /\ Cardinality({i \in AllJudges : Returned(i, <<"B", "A">>)}) = 1
    /\ Cardinality({i \in AllJudges : Returned(i, <<"A", "B">>)}) = 1
    /\ Cardinality({i \in AllJudges : JudgeFailed(i)}) = 1

\* q is the quotient three halves.
IsOneAndAHalf(q) == q.num * 2 = q.den * 3

\* C12 (as claimed): in the scenario the labels are A = model1 and
\* B = model3, both models have average_score 1.5 and average_rank 1.5,
\* and model1 is listed first.
C12_Scenario ==
    Scenario =>
        /\ ~fault
        /\ DOMAIN label_to_model = {"A", "B"}
        /\ label_to_model["A"] = council_models[1]
        /\ label_to_model["B"] = council_models[3]
        /\ Len(aggregate_rankings) = 2
        /\ aggregate_rankings[1].model = council_models[1]
        /\ aggregate_rankings[2].model = council_models[3]
        /\ \A n \in 1..2 :
              /\ IsOneAndAHalf(aggregate_rankings[n].average_score)
              /\ IsOneAndAHalf(aggregate_rankings[n].average_rank)

\* C13 (as claimed): when stage 1 has a success, a request in which stage 2
\* has completed runs stage 3 exactly once before it ends, whatever the
\* judges did.
C13_Stage2TriggersStage3 ==
    /\ done_count <= 1
    /\ (Finished /\ stages_settled >= 2 /\ SuccessSlots # {})
          => (stages_settled = 3 /\ done_count = 1)

\* Judge i answered, and its output was not JSON or not a list of entries.
Malformed(i) ==
    /\ api_key # None
    /\ i \notin stage2_absent
    /\ stage2_results[i].ranking.kind \in {"None", "object"}

\* C14 (as claimed): a request in which some judge's output was malformed,
\* on a conversation nobody deleted, still ends with stage 3 run, the
\* assistant message stored and no fault or error event for the caller.
C14_MalformedJudgeNotFatal ==
    (Finished /\ store.exists /\ \E i \in AllJudges : Malformed(i)) =>
        /\ stages_settled = 3
        /\ stage3_result # NoStage3
        /\ assistant_appends = 1
        /\ ~fault
        /\ \A n \in 1..Len(events) : events[n] # "error"

\* The call that returned last was a get of the conversation.
GetReturned == last_op.name = "get"

\* What a get of an id nobody stored gives the caller.
NotFound == [status |-> "404", value |-> Absent]

\* C15 (amended): a get with an owner filter answers exactly as a get of
\* an unknown id does (404, no record) when the stored record has an owner
\* and it is not the caller's; a record without an owner, and a record of
\* the caller, are returned whole.  No answer of a get is a 403.
C15_OwnerFilter ==
    (GetReturned /\ store.exists) =>
        /\ result.status \in {"200", "404"}
        /\ IF /\ last_op.client_id # None
              /\ store.client_id # None
              /\ store.client_id # last_op.client_id
           THEN result = NotFound
           ELSE result = [status |-> "200", value |-> store]

\* A caller asked for a record that another client owns and got the
\* answer of an unknown id.
C15_Witness ==
    /\ GetReturned
    /\ last_op.client_id = "alice"
    /\ store.exists /\ store.client_id = "bob"
    /\ result = NotFound

\* C15 (as claimed): whenever the filter is set and differs from the stored
\* owner, whatever the stored owner is, the get answers 404.
C15_FilterHidesEveryOwner ==
    (/\ GetReturned
     /\ store.exists
     /\ last_op.client_id # None
     /\ store.client_id # last_op.client_id) => result = NotFound

\* C16 (as claimed): once the delete of a conversation that was created
\* and given a user and an assistant message has returned true, every
\* later get of it answers as for an unknown id, whatever the remote tier
\* and the background threads do.
C16_DeletedStaysAbsent == (deleted /\ GetReturned) => result = NotFound

\* Writer w's append writes the record in this step.
Writes(w) == writers[w].pc = "read" /\ writers'[w].pc = "done"

Saves == {u \in Running : u.kind = "save"}

\* What is left of a push: two requests for each attempt not yet begun,
\* one when the attempt's GET is behind it.
Remaining(u) == 2 * (Retries - u.attempt) - (IF u.pc = "put" THEN 1 ELSE 0)

\* Push u takes this step and goes on as u2.
GoesOn(u, u2) ==
    /\ u2.kind = "save"
    /\ units' = (units (-) SetToBag({u})) (+) SetToBag({u2})
    /\ remote' = remote
    /\ Remaining(u2) < Remaining(u)
    /\ u.pc = "get" /\ u2.pc = "put" => u2.sha \in {NoSha, Sha(remote.content)}
    /\ u.pc = "put" => u2.pc = "get" /\ u2.sha = NoSha

\* Push u takes this step and returns: True with its record in the
\* repository, or False after the last attempt.
Returns(u) ==
    /\ units' = units (-) SetToBag({u})
    /\ \/ u.pc = "put" /\ PutAccepted(u, remote)
          /\ remote' = [exists |-> TRUE, content |-> u.content]
       \/ u.attempt = Retries - 1 /\ remote' = remote

\* C18: a push is always within its three attempts, each of which sends
\* one PUT at most; every step of a push leaves the local record alone and
\* brings the push nearer its end; a refused PUT is followed by a GET that
\* fetches the sha anew; and a push ends with its record stored in the
\* repository or, after the third attempt, with failure.
C18_BoundedRetry ==
    /\ [](\A u \in Saves : u.attempt < Retries)
    /\ [][(SaveGet \/ SavePut) =>
            /\ store' = store
            /\ \E u \in Saves :
                  \/ Returns(u)
                  \/ \E u2 \in BagToSet(units') : GoesOn(u, u2)]_vars

\* A push on its third attempt is about to send a PUT whose sha another
\* write has made stale.
C18_Witness ==
    \E u \in Saves :
        /\ u.pc = "put"
        /\ u.attempt = Retries - 1
        /\ u.sha # NoSha
        /\ ~PutAccepted(u, remote)

\* A step of a background thread.
Background ==
    SaveGet \/ SavePut \/ DeleteGet \/ DeleteDelete \/ ListFiles \/ Fetch

\* A storage call made by a request.
Foreground ==
    \/ Create({None}) \/ Get({None}) \/ List({None}) \/ op_delete
    \/ FirstTitle
    \/ BeginAppend({1}, {"user"}) \/ FinishAppend({1})

\* The local record a storage call leaves and the result it gives when
\* there is no remote tier: they come from the local record and the
\* caller's own read alone.
LocalOutcomes ==
    {<<create_conversation(None),
       [status |-> "200", value |-> create_conversation(None)]>>,
     <<store, get_conversation_endpoint(store, None)>>,
     <<store, list_conversations(store, None)>>,
     <<Absent, [status |-> IF store.exists THEN "True" ELSE "False",
                value |-> Absent]>>,
     <<update_conversation_title(store, "generated-title").store,
       [status |-> IF store.exists THEN "ok" ELSE "ValueError",
        value |-> update_conversation_title(store, "generated-title").store]>>,
     <<store, IF store.exists
              THEN result
              ELSE [status |-> "ValueError", value |-> Absent]>>}
    \cup {<<Appended(writers[w].snap, writers[w].role),
            [status |-> "ok",
             value |-> Appended(writers[w].snap, writers[w].role)]>> :
             w \in {v \in Writers : writers[v].pc = "read"}}

\* C19: no step of a background thread, whatever the API answers or
\* raises, touches the result, the fault or the status of a request, and
\* the only thing one does to the local record is to write the remote copy
\* a pull fetched; every storage call gives the result and leaves the
\* local record it would with no remote tier at all.
C19_FaultsStayInBackground ==
    [][/\ Background =>
            /\ UNCHANGED <<last_op, result, writers, fault, status, events>>
            /\ store' # store => remote.exists /\ store' = remote.content
       /\ Foreground => <<store', result'>> \in LocalOutcomes]_vars

\* The push of an append has failed twice, and the append returned with
\* its message stored locally.
C19_Witness ==
    /\ last_op.name = "append"
    /\ result = [status |-> "ok", value |-> store]
    /\ remote.content # store
    /\ \E u \in Saves : u.content = store /\ u.attempt = Retries - 1

\* The thread a local miss starts: the pull, before its first request.
Pull == Unit("pull", "fetch", Absent)

\* C20: a get of an id with no local record answers as for an unknown id
\* in the step of the call itself, whether or not the repository holds the
\* record; it reads and writes nothing of the repository and leaves the
\* local store empty; with the remote tier enabled it has started one pull
\* thread, with it disabled none.
C20_LocalMissReturnsAbsent ==
    [][(Get({None}) /\ ~store.exists) =>
          /\ result' = NotFound
          /\ store' = store /\ remote' = remote
          /\ units' = IF enabled THEN units (+) SetToBag({Pull}) ELSE units]_vars

\* A get missed locally and answered 404 while the repository holds the
\* record and the pull it started has not yet asked for it.
C20_Witness ==
    /\ GetReturned /\ result = NotFound
    /\ ~store.exists
    /\ remote.exists
    /\ Pull \in Running

\* A storage call that changes the local record: create, the write of an
\* append, a title update of a stored conversation, delete.
Mutation ==
    \/ Create({None})
    \/ FinishAppend({1})
    \/ (store.exists /\ FirstTitle)
    \/ op_delete

\* The replication thread of the mutation that leaves local record st: the
\* push of st, or the remote delete when st is no record; it has sent no
\* request yet.
ReplicationOf(st) ==
    IF st.exists
    THEN Unit("save", "get", st)
    ELSE Unit("delete", "get", Absent)

\* C21: with the remote tier enabled, the step of every local mutation
\* leaves the local record written and exactly one more thread running,
\* the replication of that record, which has not begun its work; the step
\* itself reads and writes nothing of the repository.
C21_OneUnitPerMutation ==
    [][(Mutation /\ enabled) =>
          /\ units' = units (+) SetToBag({ReplicationOf(store')})
          /\ result'.status \in {"200", "ok", "True", "False"}
          /\ remote' = remote]_vars

\* The title update has returned with the title in the local record, and
\* its push waits to send its first request while the repository still
\* holds the untitled record.
C21_Witness ==
    /\ enabled
    /\ last_op.name = "title" /\ result.status = "ok"
    /\ store.title = "generated-title"
    /\ remote.exists /\ remote.content.title # "generated-title"
    /\ Unit("save", "get", store) \in Running

\* Stage 1 of the fan-out has returned; stage 2 has returned after asking
\* the judges.
Stage1Returned == pc \in {"fo_stage2", "fo_gather2", "fo_done"}
Stage2Returned == pc = "fo_done" /\ judge_calls > 0

\* C22: the stage-1 list never holds more outcomes than there are models,
\* its i-th outcome is the one of the i-th model's own call, and when
\* stage 1 has returned it holds one outcome for each configured model;
\* the same for the stage-2 list and the judges, whenever stage 2 asks the
\* judges; all this in whatever order the calls completed.
C22_IndexAligned ==
    /\ \A i \in 1..Len(stage1_results) :
          /\ i <= Len(council_models)
          /\ stage1_results[i].model = council_models[i]
          /\ stage1_results[i] = Stage1Entry(tasks[Stage1Task(i)])
    /\ Stage1Returned => Len(stage1_results) = Len(council_models)
    /\ \A i \in 1..Len(stage2_results) :
          /\ i <= Len(council_models)
          /\ stage2_results[i].model = council_models[i]
          /\ stage2_results[i] = Stage2Entry(tasks[Stage2Task(i)])
    /\ Stage2Returned => Len(stage2_results) = Len(council_models)

\* Both stages have returned their lists although in each the call of the
\* second model completed before the call of the first, with a different
\* outcome.
C22_Witness ==
    /\ Stage2Returned
    /\ council_models = CouncilOf(2)
    /\ completed = <<2, 1, 4, 3>>
    /\ stage1_results[1].response # stage1_results[2].response
    /\ stage2_results[1].ranking # stage2_results[2].ranking

\* The tasks a stage function has created when it starts to wait.
AllCreated ==
    /\ pc = "fo_gather1" => Len(tasks) = Len(council_models)
    /\ pc = "fo_gather2" => Len(tasks) = 2 * Len(council_models)

\* The calls of a stage that has returned have all run to their end.
AllSettled ==
    /\ Stage1Returned =>
          \A i \in 1..Len(council_models) :
              tasks[Stage1Task(i)].state = "done"
    /\ Stage2Returned =>
          \A i \in 1..Len(council_models) :
              tasks[Stage2Task(i)].state = "done"

\* C23: while a stage function waits for results all its calls have been
\* created; a step changes the state of one task at most, the one that
\* completes, and never a task that has completed, so no call's failure
\* or timeout reaches a sibling; and a stage returns only when every one
\* of its calls has run to its end.
C23_IndependentCalls ==
    /\ [](AllCreated /\ AllSettled)
    /\ [][\A i \in 1..Len(tasks) :
             /\ tasks'[i] # tasks[i] =>
                   /\ tasks[i].state = "created"
                   /\ completed' = Append(completed, i)
             /\ tasks[i].state = "done" => tasks'[i] = tasks[i]]_vars

\* Stage 1 has returned: the first model's call timed out, the second
\* model's call completed after it and its answer is in the list.
C23_Witness ==
    /\ Stage1Returned
    /\ council_models = CouncilOf(2)
    /\ api_key # None
    /\ tasks[1].outcome = "exception" /\ tasks[2].outcome = "200"
    /\ SubSeq(completed, 1, 2) = <<1, 2>>
    /\ stage1_results[2].response = ModelText[council_models[2]]

\* The slots of the model list whose stage-1 call did not raise, and the
\* 0-based position of slot i among them.
OkSlots ==
    {i \in 1..Len(council_models) :
        Stage1Entry(tasks[Stage1Task(i)]).error = None}
PositionAmongOk(i) == Cardinality({j \in OkSlots : j < i})

\* C24: the label-to-model map stage 2 builds is fixed by the model list
\* and by which of the stage-1 calls succeeded: the label of the k-th
\* success in list order is the k-th letter and names that slot's model,
\* in whatever order the calls completed.
C24_LabelsDeterministic ==
    pc \in {"fo_gather2", "fo_done"} =>
        /\ DOMAIN label_to_model = {LabelOf(PositionAmongOk(i)) : i \in OkSlots}
        /\ \A i \in OkSlots :
              label_to_model[LabelOf(PositionAmongOk(i))] = council_models[i]

\* The second model's stage-1 call completed before the first model's,
\* and the labels are those of the list order: A names the first model.
C24_Witness ==
    /\ pc = "fo_gather2"
    /\ council_models = CouncilOf(2)
    /\ SubSeq(completed, 1, 2) = <<2, 1>>
    /\ DOMAIN label_to_model = {"A", "B"}
    /\ label_to_model["A"] = council_models[1]
    /\ label_to_model["B"] = council_models[2]

\* C25 (as claimed): in every run that labels its models, for every model
\* list, a list that repeats a model id included, no two labels name the
\* same model, and the responses sent to the judges carry exactly the
\* labels of the label-to-model map.
C25_LabelMapsAgree ==
    pc \in {"fo_gather2", "fo_done"} =>
        /\ \A a, b \in DOMAIN label_to_model :
              label_to_model[a] = label_to_model[b] => a = b
        /\ DOMAIN anonymized_responses = DOMAIN label_to_model

\* The gateway call of a finished stage-1 task.
GatewayCall(t) == query_model(api_key, t.outcome, ModelText[t.model])

\* C26: whatever the HTTP exchange of a call made with an API key came
\* to, query_model raised nothing; it returned the content on status 200
\* and None on every other status, on a timeout and on a transport error.
C26_GatewayFailsSoft ==
    \A i \in 1..Len(tasks) :
        (tasks[i].state = "done" /\ api_key # None) =>
            /\ ~GatewayCall(tasks[i]).raised
            /\ tasks[i].outcome = "200" =>
                  GatewayCall(tasks[i]).value = ModelText[tasks[i].model]
            /\ tasks[i].outcome # "200" => GatewayCall(tasks[i]).value = None

\* A stage-1 call ended in a transport error or timeout and one in a
\* non-success status; the stage took both as answers without an error.
C26_Witness ==
    /\ api_key # None
    /\ Len(stage1_results) = 2
    /\ tasks[1].outcome = "exception" /\ tasks[2].outcome = "non200"
    /\ \A i \in 1..2 :
          /\ GatewayCall(tasks[i]).value = None
          /\ stage1_results[i].error = None

\* C27: in streaming mode the title never gates the stages: once the
\* generator has stored the user message, the stream opens with
\* stage1_start, whether or not a title was asked for.
C27_TitleNeverGatesStages ==
    (mode = "stream" /\ user_appends = 1) =>
        (Len(events) >= 1 /\ events[1] = "stage1_start")

\* The exchanges of the call in which the API answered 403.
RateLimited == {i \in 1..Len(slept) : slept[i].status = "403"}

\* The client slept for the wait hint of exchange i, capped at 5 s.
SleptForHint(i) ==
    /\ Len(slept[i].sleeps) >= 1
    /\ slept[i].sleeps[1] = RateLimitSleep(slept[i].hint)
    /\ slept[i].sleeps[1] <= 10

\* C28: after every rate-limit response, to a read or to a write, the
\* client slept for the response's wait hint capped at 5 seconds before
\* its next request; the call made at most 3 attempts and, when they
\* were used up, returned None or False.
C28_RateLimitSleepsForHint ==
    /\ \A i \in RateLimited : SleptForHint(i)
    /\ client.attempt < Retries
    /\ (client.pc = "returned" /\ slept # <<>>
          /\ slept[Len(slept)].status \notin {"200", "404"})
            => client.value \in {None, "False"}

\* What of C28 holds: get_file sleeps for the capped hint, and both calls
\* stay within the attempt budget and return without a value.
RateLimitedReadSleepsForHint ==
    /\ client.call = "get_file" => \A i \in RateLimited : SleptForHint(i)
    /\ client.attempt < Retries
    /\ (client.pc = "returned" /\ slept # <<>>
          /\ slept[Len(slept)].status \notin {"200", "404"})
            => client.value \in {None, "False"}

\* A save_file call whose three PUTs were all answered 403 has returned.
RateLimitedWriteGivenUp ==
    /\ client.call = "save_file" /\ client.pc = "returned"
    /\ Cardinality({i \in RateLimited : slept[i].request = "PUT"}) = Retries

\* C29: a stream whose caller went away after the model calls were
\* dispatched, and which ended without an error event, has persisted its
\* assistant message.
C29_AbandonedStreamPersists ==
    (mode = "stream" /\ abandoned /\ Finished /\ store.exists
       /\ \A i \in 1..Len(events) : events[i] # "error")
        => assistant_appends = 1

\* C30: the record left by a local write (create, append, title update)
\* carries a revision counter, and the token a push sends with its PUT is
\* the counter of the record it pushes.
C30_RevisionCounterIsCasToken ==
    /\ (last_op.name \in {"create", "append", "title"} /\ store.exists)
          => "revision" \in DOMAIN store
    /\ \A u \in Running :
          (u.kind = "save" /\ u.pc = "put" /\ u.sha # NoSha)
            => /\ "revision" \in DOMAIN u.content
               /\ u.sha = u.content.revision

\* The file the repository holds when it mirrors local record st.
Mirror(st) ==
    IF st.exists THEN [exists |-> TRUE, content |-> st] ELSE NoRemote

\* A storage call has been made, no append stands between its read and
\* its write, and every background thread has finished.
Replicated ==
    /\ last_op # NoCall
    /\ \A w \in Writers : writers[w].pc # "read"
    /\ units = EmptyBag

\* C31: with the remote tier on and the repository answering every
\* request, once every background thread has finished the repository's
\* file is the local record, and there is none when the conversation was
\* deleted locally.
C31_ReplicaCatchesUp == Replicated => remote = Mirror(store)

\* C32: a pull thread (started by a get that missed locally, or by a
\* list) that finishes its fetch while the conversation has a local record
\* leaves that record as it is.
C32_PullKeepsLocalRecord == [][(Fetch /\ store.exists) => store' = store]_vars

\* Request w's regenerate-stage3 writes the record in this step.
Regenerates(w) == writers[w].pc = "chairman" /\ writers'[w].pc = "done"

\* C33: the write of a regenerate-stage3 request changes only the stage3
\* field of the message it addresses: the record as it is stored at that
\* moment keeps its title and all its messages, those appended while the
\* chairman call was in flight included.
C33_RegenerateChangesOnlyStage3 ==
    [][\A w \in Writers :
          (Regenerates(w) /\ store.exists) =>
              /\ store'.exists
              /\ store'.title = store.title
              /\ store'.client_id = store.client_id
              /\ Len(store'.messages) = Len(store.messages)
              /\ \A j \in 1..Len(store.messages) :
                    /\ store'.messages[j].role = store.messages[j].role
                    /\ j # writers[w].index + 1 =>
                          store'.messages[j] = store.messages[j]]_vars

\* user, assistant, user, assistant, ... from the first message on.
Alternating(messages) ==
    \A i \in 1..Len(messages) :
        messages[i].role = IF i % 2 = 1 THEN "user" ELSE "assistant"

\* C34: between send-message requests issued one at a time (none is
\* running, none was cut off by its caller), the messages of the stored
\* conversation alternate user, assistant, starting with a user message.
C34_MessagesAlternate ==
    (pc \in {"idle", "done"} /\ ~abandoned /\ store.exists)
        => Alternating(store.messages)

\* The caller names an owner, the stored conversation has one, and they
\* differ.
OwnershipMismatch(client_id) ==
    /\ store.exists
    /\ client_id # None
    /\ store.client_id # None
    /\ store.client_id # client_id

\* A request of this caller that addresses the conversation: delete, title
\* update, send-message, regenerate-stage3.
AddressedBy(client_id) ==
    \/ ep_delete(client_id)
    \/ ep_title(client_id)
    \/ ep_send(client_id)
    \/ \E w \in Writers, i \in 0..2 : begin_regenerate(w, client_id, i)

\* C35: a delete, title-update, send-message or regenerate-stage3 request
\* of a caller whose owner id differs from the owner stored with the
\* conversation is answered 404, as for an unknown id, and changes
\* nothing: not the local record, not the threads scheduled, not the
\* repository, and no request is left in progress.
C35_MismatchChangesNothing ==
    [][\A c \in ClientIds :
          (OwnershipMismatch(c) /\ AddressedBy(c)) =>
              /\ result' = NotFound404
              /\ UNCHANGED <<store, units, remote, writers, pc, deleted>>]_vars

\* Alice's delete of Bob's conversation was answered 404 and the
\* conversation is still stored.
C35_Witness ==
    /\ last_op = [name |-> "delete", client_id |-> "alice"]
    /\ store.exists /\ store.client_id = "bob"
    /\ result = NotFound404

\* C36: a list call made with a caller id that is set contains the stored
\* conversation exactly when a get with that caller id returns it.
C36_ListAgreesWithGet ==
    (last_op.name = "list" /\ last_op.client_id # None /\ store.exists) =>
        (result.value = store
            <=> get_conversation(store, last_op.client_id).found)

\* C37: when stage 1 has a success and the chairman call fails, the stage-3
\* result is the fixed failure marker with an error; a stage-3 result has a
\* null error only when the chairman returned text.
C37_NullErrorOnlyWithChairmanText ==
    (stage3_result.response # None /\ stage3_result.error = None) =>
        stage3_result.response = ChairmanText

\* What run_full_council and send_message leave behind for a request whose
\* stage 1 was collected: three stages, the aggregate of stage 2 under the
\* label map, and the assistant message holding stage 3.
FullCouncilOutcome ==
    /\ stages_settled = 3
    /\ stage3_result # NoStage3
    /\ LET agg == calculate_aggregate_rankings(stage2_results, label_to_model)
       IN  ~agg.raised =>
               /\ aggregate_rankings = agg.value
               /\ store.exists =>
                      store.messages[Len(store.messages)] =
                          AssistantMessage(stage3_result)

\* C38: the synchronous and the streaming mode are equivalent in effect: a
\* finished request of either mode has computed the same three stages, label
\* map and aggregate ranking and left the same stored conversation.
C38_ModesAgree ==
    (pc = "done" /\ ~abandoned /\ stages_settled > 0) => FullCouncilOutcome

\* C39: with the remote tier disabled, get_file returns absence, save_file
\* and delete_file return false, list_files returns the empty list, no call
\* exchanges anything with the remote store, the remote store stays as it
\* is, and no operation of the store leaves a background thread.
C39_DisabledTierIsNoOp ==
    [][~enabled =>
          /\ units' = EmptyBag
          /\ remote' = remote
          /\ slept' = <<>>
          /\ client' # client =>
                 /\ client'.pc = "returned"
                 /\ client'.call = "get_file" => client'.value = None
                 /\ client'.call = "list_files" => client'.value = "[]"
                 /\ client'.call \in {"save_file", "delete_file"} =>
                        client'.value = "False"]_vars

C39_Witness ==
    /\ ~enabled
    /\ client.pc = "returned" /\ client.call = "list_files"
    /\ client.value = "[]"
    /\ last_op.name = "delete" /\ result.status = "True"
    /\ units = EmptyBag

====
